---- MODULE Spec2Model ----
(***************************************************************************)
(* Red-black tree ADT (rb_tree_* in the C source): the node heap, the      *)
(* shared sentinel, the process-wide node free-list and the public         *)
(* operations insert, replace, remove and steal, each taken as one atomic  *)
(* step that runs the whole C function.                                    *)
(*                                                                         *)
(* A tree in the middle of the C code is the record t below; every C       *)
(* statement is one functional update of t, in the order of the source.    *)
(***************************************************************************)
EXTENDS Integers, Sequences, FiniteSets, TLC

(* ---------------------------------------------------------------- bounds *)

\* node cells the process can obtain from the system allocator
MaxNodes == 8
\* Spec: keys are ordered 1..MaxKey, a run makes at most MaxOps calls
MaxKey == 5
MaxOps == 6
\* SpecDeep (insert and remove only): more keys, longer runs
MaxKeyD == 6
MaxOpsD == 8
\* SpecHeight (insert and remove only)
MaxKeyH == 6
MaxOpsH == 6
\* SpecPayload: fewer keys, MaxId key objects per order, MaxVal value objects
MaxKeyP == 3
MaxVal == 2
MaxId == 2
MaxOpsP == 5
\* SpecFresh and SpecLife: MaxKeyP key orders, every call brings key and
\* value objects of its own; at most MaxOpsI and MaxOpsL calls
MaxOpsI == 6
MaxOpsL == 6
\* SpecRelease (insert of absent keys, then release): MaxKeyF keys
MaxKeyF == 8
\* SpecWorn: the fill of MaxKeyF keys, MaxHigh of them from the second
\* producer, and the calls after it, MaxOpsW in all
MaxHigh == 2
MaxOpsW == 14
\* SpecQueue: MaxAddr objects of MaxPri priorities, MaxOpsPQ pushes and pops
MaxPri == 3
MaxAddr == 3
MaxOpsPQ == 6
\* SpecTreap: keys 1..MaxKeyT, MaxPrio priorities, MaxOpsT calls
MaxKeyT == 3
MaxPrio == 2
MaxOpsT == 6
\* SpecSkiplist: keys 1..MaxKeyS, node heights 0..MaxHeightS, MaxOpsS calls
MaxKeyS == 3
MaxHeightS == 1
MaxOpsS == 4
\* SpecRotate: MaxKeyX keys inserted, MaxOpsX inserts and rotations
MaxKeyX == 5
MaxOpsX == 7
\* SpecSized: queues of 1..MaxSize slots, MaxOpsZ pushes and pops
MaxSize == 2
MaxOpsZ == 4
\* SpecQuery: MaxKeyQ keys, MaxOpsQ inserts and removes
MaxKeyQ == 4
MaxOpsQ == 5

(* -------------------------------------------------------------- pointers *)

\* the C null pointer, as a node pointer (free-list terminator)
null == -1
\* &s_null_node, the shared sentinel
rb_null == 0

BLACK == "BLACK"
RED == "RED"

Nodes == 0..MaxNodes

\* `pointer' payloads: a key object, a value object, or the null pointer.
\* Two key objects with the same ord compare equal but are different objects.
KeyPtr(o, i) == [tag |-> "key", ord |-> o, id |-> i]
ValPtr(v) == [tag |-> "value", ord |-> 0, id |-> v]
NullPtr == [tag |-> "null", ord |-> 0, id |-> 0]

\* the comparator handed to rb_tree_new: strcmp-like, on the keys' order only
key_compare(a, b) == a.ord - b.ord

(* ----------------------------------------------------------------- state *)

VARIABLES
    left, right, parent, color, key, value,   \* the fields of every node cell
    root,                                     \* tree->root
    key_release, value_release,               \* tree->key_release / value_release set?
    node_free_list,                           \* head of the free-list
    fresh,                                    \* cells obtained by new_struct so far
    released,                                 \* callbacks invoked by the last call
    status,                                   \* "ok", or how the process died
    stored,                                   \* history: what the calls so far stored
    call,                                     \* history: the last public call
    ops,                                      \* history: number of calls
    q,                                        \* the PriorityQueue structure
    qcall,                                    \* history: the last queue call
    treap,                                    \* the Treap object: @tree, @size
    tcall,                                    \* history: the last Treap call
    skiplist,                                 \* the Skiplist object and its nodes
    scall                                     \* history: the last Skiplist call

heap == <<left, right, parent, color, key, value, root, node_free_list, fresh>>
vars == <<left, right, parent, color, key, value, root, key_release,
          value_release, node_free_list, fresh, released, status, stored,
          call, ops, q, qcall, treap, tcall, skiplist,
          scall>>

\* the red-black tree's part of the state, and the other structures' part
tree == <<heap, key_release, value_release, released, status, stored, call>>
others == <<q, qcall, treap, tcall, skiplist, scall>>

\* the program state as one record, the form the operators below work on
Cur ==
    [left |-> left, right |-> right, parent |-> parent, color |-> color,
     key |-> key, value |-> value, root |-> root, free |-> node_free_list,
     fresh |-> fresh, key_release |-> key_release,
     value_release |-> value_release, log |-> <<>>, status |-> "ok"]

Fail(t, how) == [t EXCEPT !.status = how]

\* the pair of a key order that holds nothing
NoPair == [key |-> NullPtr, value |-> NullPtr]

NoCall == [op |-> "none", key |-> NullPtr, value |-> NullPtr,
           found |-> FALSE, old |-> NoPair]

(* ------------------------------------------------------------- rotations *)

rb_tree_rotate_left(t, x) ==
    IF t.status # "ok" THEN t
    ELSE IF x = rb_null \/ t.right[x] = rb_null THEN Fail(t, "abort")
    ELSE LET y == t.right[x]
             b == t.left[y]
         IN  IF b = null THEN Fail(t, "segv")
             ELSE LET t1 == [t EXCEPT !.right[x] = b]
                      t2 == IF b # rb_null THEN [t1 EXCEPT !.parent[b] = x]
                            ELSE t1
                      t3 == [t2 EXCEPT !.parent[y] = t2.parent[x]]
                      xp == t3.parent[x]
                      t4 == IF xp = rb_null THEN [t3 EXCEPT !.root = y]
                            ELSE IF x = t3.left[xp]
                                 THEN [t3 EXCEPT !.left[xp] = y]
                                 ELSE [t3 EXCEPT !.right[xp] = y]
                      t5 == [t4 EXCEPT !.left[y] = x]
                  IN  [t5 EXCEPT !.parent[x] = y]

\* As written in the source: y->left = y->right, and y->right->parent = y
\* when x->right is not the sentinel.
rb_tree_rotate_right(t, y) ==
    IF t.status # "ok" THEN t
    ELSE IF y = rb_null \/ t.left[y] = rb_null THEN Fail(t, "abort")
    ELSE LET x == t.left[y]
         IN  IF x = null THEN Fail(t, "segv")
             ELSE LET t1 == [t EXCEPT !.left[y] = t.right[y]]
                      t2 == IF t1.right[x] # rb_null
                            THEN [t1 EXCEPT !.parent[t1.right[y]] = y]
                            ELSE t1
                      t3 == [t2 EXCEPT !.parent[x] = t2.parent[y]]
                      yp == t3.parent[y]
                      t4 == IF yp = rb_null THEN [t3 EXCEPT !.root = x]
                            ELSE IF y = t3.left[yp]
                                 THEN [t3 EXCEPT !.left[yp] = x]
                                 ELSE [t3 EXCEPT !.right[yp] = x]
                      t5 == [t4 EXCEPT !.right[x] = y]
                  IN  [t5 EXCEPT !.parent[y] = x]

(* ------------------------------------------------------------ allocation *)

\* the cell rb_tree_node_new hands out: the free-list head, else a new one
NewNode(t) == IF t.free # null THEN t.free ELSE t.fresh + 1

\* new_struct can still deliver a cell (the model's memory is MaxNodes cells)
CanAllocate(t) == t.free # null \/ t.fresh < MaxNodes

\* Faulty variant: right is not reset (only left serves as free-list link)
rb_tree_node_new_stale(t, k, v, p, c) ==
    LET node == NewNode(t)
        t1 == IF t.free # null THEN [t EXCEPT !.free = t.left[node]]
              ELSE [t EXCEPT !.fresh = node]
    IN  [t1 EXCEPT !.left[node] = rb_null,
                   !.parent[node] = p,
                   !.color[node] = c,
                   !.key[node] = k,
                   !.value[node] = v]

rb_tree_node_new(t, k, v, p, c) ==
    LET node == NewNode(t)
        t1 == IF t.free # null THEN [t EXCEPT !.free = t.left[node]]
              ELSE [t EXCEPT !.fresh = node]
    IN  [t1 EXCEPT !.left[node] = rb_null,
                   !.right[node] = rb_null,
                   !.parent[node] = p,
                   !.color[node] = c,
                   !.key[node] = k,
                   !.value[node] = v]

\* G_LOCK; node->left = node_free_list; node_free_list = node; G_UNLOCK
FreeListPush(t, node) ==
    [t EXCEPT !.left[node] = t.free, !.free = node]

(* ------------------------------------------------- find / insert / replace *)

\* The descent of rb_tree_find: the until-loop over iter.  seen holds the
\* nodes already passed: the tree is not changed by the loop, so coming back
\* to one of them means the loop never ends.
RECURSIVE Descend(_, _, _, _, _)
Descend(t, k, iter, iters_parent, seen) ==
    IF iter = rb_null
    THEN [iter |-> iter, iters_parent |-> iters_parent, found |-> FALSE,
          status |-> "ok"]
    ELSE IF iter = null
    THEN [iter |-> iter, iters_parent |-> iters_parent, found |-> FALSE,
          status |-> "segv"]
    ELSE IF iter \in seen
    THEN [iter |-> iter, iters_parent |-> iters_parent, found |-> FALSE,
          status |-> "hang"]
    ELSE LET cmp == key_compare(k, t.key[iter])
         IN  IF cmp < 0
             THEN Descend(t, k, t.left[iter], iter, seen \cup {iter})
             ELSE IF cmp = 0
             THEN [iter |-> iter, iters_parent |-> iter, found |-> TRUE,
                   status |-> "ok"]
             ELSE Descend(t, k, t.right[iter], iter, seen \cup {iter})

Callback(t, configured, fn, arg) ==
    IF configured THEN [t EXCEPT !.log = Append(t.log, <<fn, arg>>)] ELSE t

\* The while-loop that restores the balance after a red node was attached
\* (InsertRestore is the loop head; the other operators are the branches of
\* its body).  seen holds the <<tree, iter>> pairs at earlier loop heads: the
\* loop is deterministic, so meeting one again means it never ends.
RECURSIVE InsertRestore(_, _, _)

\* parent BLACK, grandparent RED, rotate the grandparent to the right
InsertLeftyOuter(t, iter, seen) ==
    IF t.status # "ok" THEN t
    ELSE InsertRestore(
             rb_tree_rotate_right(
                 [t EXCEPT !.color[t.parent[iter]] = BLACK,
                           !.color[t.parent[t.parent[iter]]] = RED],
                 t.parent[t.parent[iter]]),
             iter, seen)

\* the mirror image: rotate the grandparent to the left
InsertRightyOuter(t, iter, seen) ==
    IF t.status # "ok" THEN t
    ELSE InsertRestore(
             rb_tree_rotate_left(
                 [t EXCEPT !.color[t.parent[iter]] = BLACK,
                           !.color[t.parent[t.parent[iter]]] = RED],
                 t.parent[t.parent[iter]]),
             iter, seen)

\* the parent is a left child: the uncle is the grandparent's right child
InsertLefty(t, iter, seen) ==
    LET p == t.parent[iter]
        g == t.parent[p]
        u == t.right[g]
    IN  IF t.color[u] = RED
        THEN InsertRestore([t EXCEPT !.color[p] = BLACK,
                                     !.color[u] = BLACK,
                                     !.color[g] = RED],
                           g, seen)
        ELSE IF iter = t.right[p]
        THEN InsertLeftyOuter(rb_tree_rotate_left(t, p), p, seen)
        ELSE InsertLeftyOuter(t, iter, seen)

\* the parent is a right child: the uncle is the grandparent's left child
InsertRighty(t, iter, seen) ==
    LET p == t.parent[iter]
        g == t.parent[p]
        u == t.left[g]
    IN  IF u = null THEN Fail(t, "segv")
        ELSE IF t.color[u] = RED
        THEN InsertRestore([t EXCEPT !.color[p] = BLACK,
                                     !.color[u] = BLACK,
                                     !.color[g] = RED],
                           g, seen)
        ELSE IF iter = t.left[p]
        THEN InsertRightyOuter(rb_tree_rotate_right(t, p), p, seen)
        ELSE InsertRightyOuter(t, iter, seen)

\* Faulty variant: the fixup loop is never entered
InsertRestore_none(t, iter, seen) == t

InsertRestore(t, iter, seen) ==
    IF t.status # "ok" THEN t
    ELSE IF ~(iter # t.root /\ t.color[t.parent[iter]] = RED) THEN t
    ELSE IF <<t, iter>> \in seen THEN Fail(t, "hang")
    ELSE IF t.parent[iter] = t.left[t.parent[t.parent[iter]]]
    THEN InsertLefty(t, iter, seen \cup {<<t, iter>>})
    ELSE InsertRighty(t, iter, seen \cup {<<t, iter>>})

\* link the new node under iters_parent, or make it the root
Attach(t, new_node, iters_parent) ==
    IF iters_parent = rb_null THEN [t EXCEPT !.root = new_node]
    ELSE IF key_compare(t.key[new_node], t.key[iters_parent]) < 0
    THEN [t EXCEPT !.left[iters_parent] = new_node]
    ELSE [t EXCEPT !.right[iters_parent] = new_node]

\* Faulty variant: the root keeps the color the fixup left it with
ColorRootBlack_skipped(t, new_node) == [t |-> t, node |-> new_node]

\* "color root black" and the return of the new node
ColorRootBlack(t, new_node) ==
    IF t.status # "ok" THEN [t |-> t, node |-> new_node]
    ELSE [t |-> [t EXCEPT !.color[t.root] = BLACK], node |-> new_node]

\* the part of rb_tree_find that creates a node for an absent key
FindInsertNew(t, k, v, iters_parent) ==
    ColorRootBlack(
        InsertRestore(
            Attach(rb_tree_node_new(t, k, v, iters_parent, RED),
                   NewNode(t), iters_parent),
            NewNode(t), {}),
        NewNode(t))

\* Faulty variant: the node takes the new pair, nothing is released
ReplaceFound_silent(t, k, v, iter) ==
    [t |-> [t EXCEPT !.key[iter] = k, !.value[iter] = v], node |-> iter]

\* Faulty variant: the incoming key is released and the stored one kept
ReplaceFound_keeps(t, k, v, iter) ==
    [t |-> [Callback(Callback(t, t.key_release, "key_release", k),
                     t.value_release, "value_release", t.value[iter])
              EXCEPT !.value[iter] = v],
     node |-> iter]

\* found && insert && replace: the stored key and value are released, the
\* node takes the new key and the new value
ReplaceFound(t, k, v, iter) ==
    [t |-> [Callback(Callback(t, t.key_release, "key_release", t.key[iter]),
                     t.value_release, "value_release", t.value[iter])
              EXCEPT !.key[iter] = k, !.value[iter] = v],
     node |-> iter]

\* Faulty variant: the stored key is released and the incoming one adopted
InsertFound_adopts(t, k, v, iter) ==
    [t |-> [Callback(Callback(t, t.key_release, "key_release", t.key[iter]),
                     t.value_release, "value_release", t.value[iter])
              EXCEPT !.key[iter] = k, !.value[iter] = v],
     node |-> iter]

\* found && insert: the incoming key and the stored value are released, the
\* node keeps its key and takes the new value
InsertFound(t, k, v, iter) ==
    [t |-> [Callback(Callback(t, t.key_release, "key_release", k),
                     t.value_release, "value_release", t.value[iter])
              EXCEPT !.value[iter] = v],
     node |-> iter]

\* Faulty variant: a key that is not found is inserted whatever insert says
FindAfterDescent_always(t, k, v, insert, replace, d) ==
    IF d.status # "ok" THEN [t |-> Fail(t, d.status), node |-> rb_null]
    ELSE IF d.found /\ insert /\ replace THEN ReplaceFound(t, k, v, d.iter)
    ELSE IF d.found /\ insert THEN InsertFound(t, k, v, d.iter)
    ELSE IF d.found THEN [t |-> t, node |-> d.iter]
    ELSE FindInsertNew(t, k, v, d.iters_parent)

\* the part of rb_tree_find that follows the descent d
FindAfterDescent(t, k, v, insert, replace, d) ==
    IF d.status # "ok" THEN [t |-> Fail(t, d.status), node |-> rb_null]
    ELSE IF d.found /\ insert /\ replace THEN ReplaceFound(t, k, v, d.iter)
    ELSE IF d.found /\ insert THEN InsertFound(t, k, v, d.iter)
    ELSE IF d.found \/ ~insert THEN [t |-> t, node |-> d.iter]
    ELSE FindInsertNew(t, k, v, d.iters_parent)

\* rb_tree_find(tree, key, value, insert, replace): the tree after the call
\* and the node it returns.
rb_tree_find(t, k, v, insert, replace) ==
    FindAfterDescent(t, k, v, insert, replace,
                     Descend(t, k, t.root, rb_null, {}))

(* ---------------------------------------------------------------- removal *)

\* rb_tree_node_successor: the node found, or how the search died
RECURSIVE SuccessorDown(_, _, _)
SuccessorDown(t, iter, seen) ==
    IF iter = null THEN [iter |-> iter, status |-> "segv"]
    ELSE IF iter \in seen THEN [iter |-> iter, status |-> "hang"]
    ELSE IF t.left[iter] = rb_null THEN [iter |-> iter, status |-> "ok"]
    ELSE SuccessorDown(t, t.left[iter], seen \cup {iter})

RECURSIVE SuccessorUp(_, _, _, _)
SuccessorUp(t, node, iter, seen) ==
    IF iter = rb_null \/ node # t.right[iter]
    THEN [iter |-> iter, status |-> "ok"]
    ELSE IF iter \in seen THEN [iter |-> iter, status |-> "hang"]
    ELSE SuccessorUp(t, iter, t.parent[iter], seen \cup {iter})

rb_tree_node_successor(t, node) ==
    IF t.right[node] # rb_null
    THEN SuccessorDown(t, t.right[node], {})
    ELSE SuccessorUp(t, node, t.parent[node], {})

\* rb_tree_node_remove_restore is the loop head and the final
\* x->color = BLACK; the Restore operators are the branches of the loop
\* body, w being x's sibling at each point.
RECURSIVE rb_tree_node_remove_restore(_, _, _)

\* x is a left child, w (black) has a red right child
RestoreLeftFar(t, x, seen) ==
    IF t.status # "ok" THEN t
    ELSE LET p == t.parent[x]
             w == t.right[p]
         IN  rb_tree_node_remove_restore(
                 rb_tree_rotate_left(
                     [t EXCEPT !.color[w] = t.color[p],
                               !.color[p] = BLACK,
                               !.color[t.right[w]] = BLACK],
                     p),
                 rb_tree_rotate_left(
                     [t EXCEPT !.color[w] = t.color[p],
                               !.color[p] = BLACK,
                               !.color[t.right[w]] = BLACK],
                     p).root,
                 seen)

\* x is a left child and its sibling w is black
RestoreLeftBlack(t, x, seen) ==
    IF t.status # "ok" THEN t
    ELSE LET p == t.parent[x]
             w == t.right[p]
         IN  IF t.left[w] = null THEN Fail(t, "segv")
             ELSE IF t.color[t.left[w]] = BLACK /\ t.color[t.right[w]] = BLACK
             THEN rb_tree_node_remove_restore([t EXCEPT !.color[w] = RED],
                                              p, seen)
             ELSE IF t.color[t.right[w]] = BLACK
             THEN RestoreLeftFar(
                      rb_tree_rotate_right(
                          [t EXCEPT !.color[t.left[w]] = BLACK,
                                    !.color[w] = RED],
                          w),
                      x, seen)
             ELSE RestoreLeftFar(t, x, seen)

\* x is a left child
RestoreLeft(t, x, seen) ==
    LET p == t.parent[x]
        w == t.right[p]
    IN  IF t.color[w] = RED
        THEN RestoreLeftBlack(
                 rb_tree_rotate_left([t EXCEPT !.color[w] = BLACK,
                                               !.color[p] = RED],
                                     p),
                 x, seen)
        ELSE RestoreLeftBlack(t, x, seen)

\* x is a right child, w (black) has a red left child
RestoreRightFar(t, x, seen) ==
    IF t.status # "ok" THEN t
    ELSE LET p == t.parent[x]
             w == t.left[p]
         IN  IF w = null THEN Fail(t, "segv")
             ELSE IF t.left[w] = null THEN Fail(t, "segv")
             ELSE rb_tree_node_remove_restore(
                      rb_tree_rotate_right(
                          [t EXCEPT !.color[w] = t.color[p],
                                    !.color[p] = BLACK,
                                    !.color[t.left[w]] = BLACK],
                          p),
                      rb_tree_rotate_right(
                          [t EXCEPT !.color[w] = t.color[p],
                                    !.color[p] = BLACK,
                                    !.color[t.left[w]] = BLACK],
                          p).root,
                      seen)

\* x is a right child and its sibling w is black
RestoreRightBlack(t, x, seen) ==
    IF t.status # "ok" THEN t
    ELSE LET p == t.parent[x]
             w == t.left[p]
         IN  IF w = null THEN Fail(t, "segv")
             ELSE IF t.left[w] = null THEN Fail(t, "segv")
             ELSE IF t.color[t.right[w]] = BLACK /\ t.color[t.left[w]] = BLACK
             THEN rb_tree_node_remove_restore([t EXCEPT !.color[w] = RED],
                                              p, seen)
             ELSE IF t.color[t.left[w]] = BLACK
             THEN RestoreRightFar(
                      rb_tree_rotate_left(
                          [t EXCEPT !.color[t.right[w]] = BLACK,
                                    !.color[w] = RED],
                          w),
                      x, seen)
             ELSE RestoreRightFar(t, x, seen)

\* x is a right child
RestoreRight(t, x, seen) ==
    LET p == t.parent[x]
        w == t.left[p]
    IN  IF w = null THEN Fail(t, "segv")
        ELSE IF t.color[w] = RED
        THEN RestoreRightBlack(
                 rb_tree_rotate_right([t EXCEPT !.color[w] = BLACK,
                                                !.color[p] = RED],
                                      p),
                 x, seen)
        ELSE RestoreRightBlack(t, x, seen)

rb_tree_node_remove_restore(t, x, seen) ==
    IF t.status # "ok" THEN t
    ELSE IF ~(x # t.root /\ t.color[x] = BLACK)
    THEN [t EXCEPT !.color[x] = BLACK]
    ELSE IF <<t, x>> \in seen THEN Fail(t, "hang")
    ELSE IF x = t.left[t.parent[x]]
    THEN RestoreLeft(t, x, seen \cup {<<t, x>>})
    ELSE RestoreRight(t, x, seen \cup {<<t, x>>})

\* Faulty variant: the callbacks run whether or not the caller asked
ReleaseAndFree_always(t, y, notify) ==
    IF t.status # "ok" THEN t
    ELSE FreeListPush(
             Callback(Callback(t, t.key_release, "key_release", t.key[y]),
                      t.value_release, "value_release", t.value[y]),
             y)

\* Faulty variant: without notify the node is not given back to the free-list
ReleaseAndFree_kept(t, y, notify) ==
    IF t.status # "ok" THEN t
    ELSE IF notify
    THEN FreeListPush(
             Callback(Callback(t, t.key_release, "key_release", t.key[y]),
                      t.value_release, "value_release", t.value[y]),
             y)
    ELSE t

\* the callbacks of a notifying removal, then y goes onto the free-list
ReleaseAndFree(t, y, notify) ==
    IF t.status # "ok" THEN t
    ELSE IF notify
    THEN FreeListPush(
             Callback(Callback(t, t.key_release, "key_release", t.key[y]),
                      t.value_release, "value_release", t.value[y]),
             y)
    ELSE FreeListPush(t, y)

\* unless (y == z) z->key = y->key; then the fixup when y was BLACK
CopyAndRestore(t, x, y, z, notify) ==
    IF t.color[y] = BLACK
    THEN ReleaseAndFree(
             rb_tree_node_remove_restore(
                 IF y # z THEN [t EXCEPT !.key[z] = t.key[y]] ELSE t, x, {}),
             y, notify)
    ELSE ReleaseAndFree(
             IF y # z THEN [t EXCEPT !.key[z] = t.key[y]] ELSE t,
             y, notify)

\* y's parent gets x in y's place (x->parent is already set)
LinkParent(t, x, y) ==
    IF t.parent[y] = rb_null THEN [t EXCEPT !.root = x]
    ELSE IF y = t.left[t.parent[y]] THEN [t EXCEPT !.left[t.parent[y]] = x]
    ELSE [t EXCEPT !.right[t.parent[y]] = x]

\* the victim y is known: splice it out
Splice(t, z, y, notify) ==
    LET x == IF t.left[y] # rb_null THEN t.left[y] ELSE t.right[y]
    IN  IF x = null THEN Fail(t, "segv")
        ELSE CopyAndRestore(
                 LinkParent([t EXCEPT !.parent[x] = t.parent[y]], x, y),
                 x, y, z, notify)

SpliceSuccessor(t, z, s, notify) ==
    IF s.status # "ok" THEN Fail(t, s.status)
    ELSE Splice(t, z, s.iter, notify)

\* rb_tree_node_remove(tree, z, notify)
rb_tree_node_remove(t, z, notify) ==
    IF t.left[z] = rb_null \/ t.right[z] = rb_null
    THEN Splice(t, z, z, notify)
    ELSE SpliceSuccessor(t, z, rb_tree_node_successor(t, z), notify)

\* Faulty variant: the node found is removed without the test against rb_null
RemoveFound_unchecked(f, notify) ==
    IF f.t.status # "ok" THEN f.t
    ELSE rb_tree_node_remove(f.t, f.node, notify)

\* the body shared by rb_tree_remove (notify) and rb_tree_steal (no notify)
RemoveFound(f, notify) ==
    IF f.t.status # "ok" THEN f.t
    ELSE IF f.node # rb_null THEN rb_tree_node_remove(f.t, f.node, notify)
    ELSE f.t

RemoveOrSteal(t, k, notify) ==
    RemoveFound(rb_tree_find(t, k, NullPtr, FALSE, FALSE), notify)

(* ---------------------------------------------------------------- release *)

\* rb_tree_node_release(node, key_release, value_release).  r is the heap
\* r.t together with a record of the walk: r.pushed lists the nodes put on
\* the free-list, in order, and r.stale tells that a child link of a node
\* was read when the node was on the free-list already.  path holds the
\* nodes on the recursion stack: meeting one again means the recursion does
\* not return.
RECURSIVE rb_tree_node_release(_, _, _)

OnFreeList(r, node) == \E i \in 1..Len(r.pushed) : r.pushed[i] = node

ReadLink(r, node) ==
    IF OnFreeList(r, node) THEN [r EXCEPT !.stale = TRUE] ELSE r

\* key_release(node->key); value_release(node->key); free-list push
NodeReleaseSelf(r, node) ==
    IF r.t.status # "ok" THEN r
    ELSE [r EXCEPT
             !.t = FreeListPush(
                       Callback(Callback(r.t, r.t.key_release, "key_release",
                                         r.t.key[node]),
                                r.t.value_release, "value_release",
                                r.t.key[node]),
                       node),
             !.pushed = Append(r.pushed, node)]

\* rb_tree_node_release(node->left, ...): the link is read after the right
\* subtree has been released
NodeReleaseLeft(r, node, path) ==
    IF r.t.status # "ok" THEN r
    ELSE rb_tree_node_release(ReadLink(r, node), r.t.left[node], path)

rb_tree_node_release(r, node, path) ==
    IF r.t.status # "ok" \/ node = rb_null THEN r
    ELSE IF node = null THEN [r EXCEPT !.t = Fail(r.t, "segv")]
    ELSE IF node \in path THEN [r EXCEPT !.t = Fail(r.t, "hang")]
    ELSE NodeReleaseSelf(
             NodeReleaseLeft(
                 rb_tree_node_release(ReadLink(r, node), r.t.right[node],
                                      path \cup {node}),
                 node, path \cup {node}),
             node)

\* the walk rb_tree_release makes from the root of t
ReleaseWalk(t) ==
    rb_tree_node_release([t |-> t, pushed |-> <<>>, stale |-> FALSE],
                         t.root, {})

\* the tree structure itself is released last: the tree is gone
TreeGone(t) == IF t.status = "ok" THEN Fail(t, "released") ELSE t

(* ---------------------------------------------------------------- queries *)

\* what a query yields when it dereferences the null pointer or recurses
\* without end (the process dies in the query)
Crash == -1
CrashPtr == [tag |-> "crash", ord |-> 0, id |-> 0]

\* path holds the nodes on the recursion stack: meeting one of them again
\* means the recursion never returns.
RECURSIVE rb_tree_node_count(_, _, _)
rb_tree_node_count(t, node, path) ==
    IF node = null \/ node \in path THEN Crash
    ELSE LET below == path \cup {node}
             l == IF t.left[node] = rb_null THEN 0
                  ELSE rb_tree_node_count(t, t.left[node], below)
             r == IF t.right[node] = rb_null THEN 0
                  ELSE rb_tree_node_count(t, t.right[node], below)
         IN  IF l = Crash \/ r = Crash THEN Crash ELSE 1 + l + r

rb_tree_size(t) ==
    IF t.root # rb_null THEN rb_tree_node_count(t, t.root, {}) ELSE 0

MAX(a, b) == IF a > b THEN a ELSE b

RECURSIVE rb_tree_node_height(_, _, _)
rb_tree_node_height(t, node, path) ==
    IF node = null \/ node \in path THEN Crash
    ELSE IF node # rb_null
    THEN LET below == path \cup {node}
             left_height == IF t.left[node] # rb_null
                            THEN rb_tree_node_height(t, t.left[node], below)
                            ELSE 0
             right_height == IF t.right[node] # rb_null
                             THEN rb_tree_node_height(t, t.right[node], below)
                             ELSE 0
         IN  IF left_height = Crash \/ right_height = Crash THEN Crash
             ELSE MAX(left_height, right_height) + 1
    ELSE 0

rb_tree_height(t) ==
    IF t.root # rb_null THEN rb_tree_node_height(t, t.root, {}) ELSE 0

rb_tree_lookup(t, k) ==
    LET f == rb_tree_find(t, k, NullPtr, FALSE, FALSE)
    IN  IF f.t.status # "ok" THEN CrashPtr
        ELSE IF f.node # rb_null THEN t.value[f.node] ELSE NullPtr

\* An output parameter of rb_tree_lookup_extended: the null pointer (not
\* given), or the address of a caller's variable and what that variable
\* holds; Unwritten is what it holds before the call.
Unwritten == [tag |-> "unwritten", ord |-> 0, id |-> 0]
NullSlot == [given |-> FALSE, holds |-> Unwritten]
Slot == [given |-> TRUE, holds |-> Unwritten]

\* the second test of the source is on orig_key again: *value is written
\* exactly when orig_key is given, through the null pointer too
LookupExtendedFound(t, node, orig_key, val) ==
    IF orig_key.given
    THEN IF val.given
         THEN [found |-> TRUE,
               orig_key |-> [orig_key EXCEPT !.holds = t.key[node]],
               value |-> [val EXCEPT !.holds = t.value[node]],
               status |-> "ok"]
         ELSE [found |-> FALSE,
               orig_key |-> [orig_key EXCEPT !.holds = t.key[node]],
               value |-> val, status |-> "segv"]
    ELSE [found |-> TRUE, orig_key |-> orig_key, value |-> val,
          status |-> "ok"]

rb_tree_lookup_extended(t, k, orig_key, val) ==
    LET f == rb_tree_find(t, k, NullPtr, FALSE, FALSE)
    IN  IF f.t.status # "ok"
        THEN [found |-> FALSE, orig_key |-> orig_key, value |-> val,
              status |-> f.t.status]
        ELSE IF f.node # rb_null
        THEN LookupExtendedFound(t, f.node, orig_key, val)
        ELSE [found |-> FALSE, orig_key |-> orig_key, value |-> val,
              status |-> "ok"]

\* rb_tree_node_map with a visitor that returns false on its stop-th call
\* (stop = 0: never) and records the <<key, value>> pairs it is called with.
\* m is [visited, go, status]; go is the function's boolean result.
RECURSIVE rb_tree_node_map_unstopped(_, _, _, _, _)
\* Faulty variant: the result of the walk of the left subtree is not tested
rb_tree_node_map_unstopped(t, node, m, stop, path) ==
    IF node = null \/ node \in path
    THEN [m EXCEPT !.go = FALSE, !.status = "segv"]
    ELSE
    LET below == path \cup {node}
        m1 == IF t.left[node] # rb_null
              THEN rb_tree_node_map_unstopped(t, t.left[node], m, stop, below)
              ELSE m
        m2 == [m1 EXCEPT !.visited =
                   Append(m1.visited, <<t.key[node], t.value[node]>>)]
        m3 == IF Len(m2.visited) = stop THEN [m2 EXCEPT !.go = FALSE] ELSE m2
    IN  IF ~m3.go THEN m3
        ELSE IF t.right[node] # rb_null
        THEN rb_tree_node_map_unstopped(t, t.right[node], m3, stop, below)
        ELSE m3

RECURSIVE rb_tree_node_map(_, _, _, _, _)
rb_tree_node_map(t, node, m, stop, path) ==
    IF node = null \/ node \in path
    THEN [m EXCEPT !.go = FALSE, !.status = "segv"]
    ELSE
    LET below == path \cup {node}
        m1 == IF t.left[node] # rb_null
              THEN rb_tree_node_map(t, t.left[node], m, stop, below)
              ELSE m
        m2 == [m1 EXCEPT !.visited =
                   Append(m1.visited, <<t.key[node], t.value[node]>>)]
        m3 == IF Len(m2.visited) = stop THEN [m2 EXCEPT !.go = FALSE] ELSE m2
    IN  IF ~m1.go THEN m1
        ELSE IF ~m3.go THEN m3
        ELSE IF t.right[node] # rb_null
        THEN rb_tree_node_map(t, t.right[node], m3, stop, below)
        ELSE m3

rb_tree_map(t, stop) ==
    LET m0 == [visited |-> <<>>, go |-> TRUE, status |-> "ok"]
    IN  IF t.root # rb_null THEN rb_tree_node_map(t, t.root, m0, stop, {})
        ELSE m0

(* ------------------------------------------------------- the public calls *)

\* what the calls made so far should have left stored under each key order
Put(s, k, v) == [o \in DOMAIN s \cup {k.ord} |->
                    IF o = k.ord THEN [key |-> k, value |-> v] ELSE s[o]]
Drop(s, k) == [o \in DOMAIN s \ {k.ord} |-> s[o]]
Has(s, k) == k.ord \in DOMAIN s
Old(s, k) == IF Has(s, k) THEN s[k.ord] ELSE NoPair

\* the state after a call that left the program in t
Becomes(t) ==
    /\ left' = t.left
    /\ right' = t.right
    /\ parent' = t.parent
    /\ color' = t.color
    /\ key' = t.key
    /\ value' = t.value
    /\ root' = t.root
    /\ node_free_list' = t.free
    /\ fresh' = t.fresh
    /\ released' = t.log
    /\ status' = t.status
    /\ UNCHANGED <<key_release, value_release, others>>

Found(t, k) == Descend(t, k, t.root, rb_null, {}).found

\* an insert of a new key needs a cell; the model's memory is bounded
Room(t, k) == IF Found(t, k) THEN TRUE ELSE CanAllocate(t)

rb_tree_insert(k, v) ==
    /\ status = "ok"
    /\ Room(Cur, k)
    /\ Becomes(rb_tree_find(Cur, k, v, TRUE, FALSE).t)
    /\ stored' = IF Has(stored, k) THEN Put(stored, stored[k.ord].key, v)
                 ELSE Put(stored, k, v)
    /\ call' = [op |-> "insert", key |-> k, value |-> v,
                found |-> Found(Cur, k), old |-> Old(stored, k)]
    /\ ops' = ops + 1

rb_tree_replace(k, v) ==
    /\ status = "ok"
    /\ Room(Cur, k)
    /\ Becomes(rb_tree_find(Cur, k, v, TRUE, TRUE).t)
    /\ stored' = Put(stored, k, v)
    /\ call' = [op |-> "replace", key |-> k, value |-> v,
                found |-> Found(Cur, k), old |-> Old(stored, k)]
    /\ ops' = ops + 1

rb_tree_remove(k) ==
    /\ status = "ok"
    /\ Becomes(RemoveOrSteal(Cur, k, TRUE))
    /\ stored' = Drop(stored, k)
    /\ call' = [op |-> "remove", key |-> k, value |-> NullPtr,
                found |-> Found(Cur, k), old |-> Old(stored, k)]
    /\ ops' = ops + 1

rb_tree_steal(k) ==
    /\ status = "ok"
    /\ Becomes(RemoveOrSteal(Cur, k, FALSE))
    /\ stored' = Drop(stored, k)
    /\ call' = [op |-> "steal", key |-> k, value |-> NullPtr,
                found |-> Found(Cur, k), old |-> Old(stored, k)]
    /\ ops' = ops + 1

\* what becomes of the process when new_struct has no memory to give:
\* rb_tree_node_new does not test the result and writes node->left next (a
\* null pointer is dereferenced), unless new_struct itself ends the process
NewStructFails == {"segv", "abort"}

\* rb_tree_insert(tree, key, value) of a key the tree does not hold, when the
\* free-list is empty and new_struct fails
rb_tree_insert_nomem(k, v) ==
    /\ status = "ok"
    /\ Descend(Cur, k, root, rb_null, {}).status = "ok"
    /\ ~Found(Cur, k)
    /\ node_free_list = null
    /\ \E how \in NewStructFails : status' = how
    /\ released' = <<>>
    /\ stored' = stored
    /\ call' = [op |-> "insert, no memory", key |-> k, value |-> v,
                found |-> FALSE, old |-> NoPair]
    /\ ops' = ops + 1
    /\ UNCHANGED <<heap, key_release, value_release, others>>

\* rb_tree_release(tree)
rb_tree_release ==
    /\ status = "ok"
    /\ Becomes(TreeGone(ReleaseWalk(Cur).t))
    /\ stored' = stored
    /\ call' = [op |-> "release", key |-> NullPtr, value |-> NullPtr,
                found |-> FALSE, old |-> NoPair]
    /\ ops' = ops + 1

\* rb_tree_new_full once the previous tree is released: the node cells and
\* the free-list are the process's and stay as they are
rb_tree_new_full ==
    /\ status = "released"
    /\ root' = rb_null
    /\ status' = "ok"
    /\ released' = <<>>
    /\ stored' = [o \in {} |-> NoPair]
    /\ call' = [op |-> "new", key |-> NullPtr, value |-> NullPtr,
                found |-> FALSE, old |-> NoPair]
    /\ ops' = ops + 1
    /\ UNCHANGED <<left, right, parent, color, key, value, node_free_list,
                   fresh, key_release, value_release, others>>

\* The queries as calls. ops counts the calls that are meant to change the
\* tree; a query leaves it as it is and is recorded in call only.
QueryOps == {"lookup", "lookup_extended", "size", "height", "map"}

\* the program after a query that read the tree t: it returned, or it died
Queried(t, died) == IF died THEN Fail(t, "segv") ELSE t

Query(op, k, t) ==
    /\ status = "ok"
    /\ Becomes(t)
    /\ call' = [op |-> op, key |-> k, value |-> NullPtr,
                found |-> IF k = NullPtr THEN FALSE ELSE Found(Cur, k),
                old |-> NoPair]
    /\ UNCHANGED <<stored, ops>>

\* rb_tree_lookup(tree, key)
Lookup(k) == Query("lookup", k, rb_tree_find(Cur, k, NullPtr, FALSE, FALSE).t)

\* rb_tree_lookup_extended(tree, key, &orig_key, &value): what it writes, it
\* writes to the caller's two variables
LookupExtended(k) ==
    Query("lookup_extended", k,
          LET t == rb_tree_find(Cur, k, NullPtr, FALSE, FALSE).t
          IN  Fail(t, IF t.status # "ok" THEN t.status
                      ELSE rb_tree_lookup_extended(Cur, k, Slot, Slot).status))

\* rb_tree_size(tree)
Size == Query("size", NullPtr, Queried(Cur, rb_tree_size(Cur) = Crash))

\* rb_tree_height(tree)
Height == Query("height", NullPtr, Queried(Cur, rb_tree_height(Cur) = Crash))

\* rb_tree_map(tree, func, closure) with a visitor that only records
Map(stop) ==
    Query("map", NullPtr, Fail(Cur, rb_tree_map(Cur, stop).status))

\* One rotation applied to a node of the tree, the way the fixups of insert
\* and remove apply it: rb_tree_rotate_left(tree, x), rb_tree_rotate_right(
\* tree, y). The history keeps the key of the node rotated.
Rotate(op, node, t) ==
    /\ status = "ok"
    /\ Becomes(t)
    /\ call' = [op |-> op, key |-> key[node], value |-> NullPtr,
                found |-> TRUE, old |-> NoPair]
    /\ ops' = ops + 1
    /\ UNCHANGED stored

RotateLeft(x) == Rotate("rotate_left", x, rb_tree_rotate_left(Cur, x))

RotateRight(y) == Rotate("rotate_right", y, rb_tree_rotate_right(Cur, y))

(* --------------------------------------------------------- priority queue *)

\* A data item handed to the queue: the object at address addr; pri is what
\* the queue's compare and equal functions look at in it.
Item(p, a) == [tag |-> "item", pri |-> p, addr |-> a]

\* the CompareFunc and the EqualFunc the queue is created with
compare(a, b) == a.pri - b.pri
equal(a, b) == a.pri = b.pri

\* q->heap[c + 1] < q->heap[c]: the two pointers themselves are compared
PointerLess(a, b) == a.addr < b.addr

PRIORITY_QUEUE_INITIAL_SIZE == 16

\* priority_queue_sized_new(compare, equal, size): size + 1 slots, none of
\* them written; slot size + 1 of the model is the memory behind the array
priority_queue_sized_new(size) ==
    [heap |-> [i \in 0..(size + 1) |-> Unwritten], len |-> 0,
     size |-> size, status |-> "ok"]

priority_queue_new == priority_queue_sized_new(PRIORITY_QUEUE_INITIAL_SIZE)

\* What a write behind the end of the array can do: land in memory that
\* stays as written ("lands"), land in memory that a later resize_array does
\* not carry over ("lost"), or end the process ("dies").
UB == {"lands", "lost", "dies"}

\* if (q->len > q->size) { q->size *= 2; resize_array(...); }
Grow(pq, ub) ==
    IF pq.len > pq.size
    THEN [pq EXCEPT
             !.size = 2 * pq.size,
             !.heap = [i \in 0..(2 * pq.size + 1) |->
                          IF i <= pq.size THEN pq.heap[i]
                          ELSE IF i = pq.size + 1 /\ ub # "lost"
                          THEN pq.heap[i]
                          ELSE Unwritten]]
    ELSE pq

\* q->heap[++q->len] = data
StoreLast(pq, data, ub) ==
    IF pq.len + 1 > pq.size + 1 THEN Fail(pq, "segv")
    ELSE IF pq.len + 1 > pq.size /\ ub = "dies" THEN Fail(pq, "segv")
    ELSE [pq EXCEPT !.len = pq.len + 1, !.heap[pq.len + 1] = data]

Swap(pq, i, j) == [pq EXCEPT !.heap[i] = pq.heap[j], !.heap[j] = pq.heap[i]]

\* the for-loop of priority_queue_push; compare called with a slot that was
\* never written dereferences a wild pointer
RECURSIVE SiftUp(_, _)
SiftUp(pq, i) ==
    IF pq.status # "ok" \/ i <= 1 THEN pq
    ELSE LET p == i \div 2
         IN  IF pq.heap[p] = Unwritten \/ pq.heap[i] = Unwritten
             THEN Fail(pq, "segv")
             ELSE IF compare(pq.heap[p], pq.heap[i]) > 0
             THEN SiftUp(Swap(pq, p, i), p)
             ELSE pq

priority_queue_push(pq, data, ub) ==
    SiftUp(StoreLast(Grow(pq, ub), data, ub), pq.len + 1)

\* the for-loop of priority_queue_pop; as in the push, a slot that was never
\* written holds a wild pointer, and compare dereferences it
RECURSIVE SiftDown(_, _)
SiftDown(pq, i) ==
    IF 2 * i > pq.len THEN pq
    ELSE IF \/ pq.heap[i] = Unwritten
            \/ pq.heap[2 * i] = Unwritten
            \/ (2 * i + 1 <= pq.len /\ pq.heap[2 * i + 1] = Unwritten)
    THEN Fail(pq, "segv")
    ELSE LET c == IF /\ 2 * i + 1 <= pq.len
                     /\ PointerLess(pq.heap[2 * i + 1], pq.heap[2 * i])
                  THEN 2 * i + 1
                  ELSE 2 * i
         IN  IF compare(pq.heap[i], pq.heap[c]) > 0
             THEN SiftDown(Swap(pq, i, c), c)
             ELSE pq

\* priority_queue_pop(q) of a queue that is not empty: the queue after the
\* call and the item returned
priority_queue_pop(pq) ==
    [q |-> SiftDown([pq EXCEPT !.heap[1] = pq.heap[pq.len],
                               !.len = pq.len - 1], 1),
     root |-> pq.heap[1]]

\* the for-loop of priority_queue_contains
RECURSIVE ContainsBelow(_, _, _)
ContainsBelow(pq, data, i) ==
    IF 2 * i > pq.len THEN FALSE
    ELSE IF \/ equal(pq.heap[2 * i], data)
            \/ (2 * i + 1 <= pq.len /\ equal(pq.heap[2 * i + 1], data))
    THEN TRUE
    ELSE ContainsBelow(pq, data, 2 * i)

priority_queue_contains(pq, data) ==
    IF pq.len > 0 /\ equal(pq.heap[1], data) THEN TRUE
    ELSE ContainsBelow(pq, data, 1)

\* the items in the queue, by heap position
Contents(pq) == [i \in 1..pq.len |-> pq.heap[i]]

NoItem == [tag |-> "none", pri |-> 0, addr |-> 0]
NoQueueCall ==
    [op |-> "none", data |-> NoItem, root |-> NoItem, yes |-> FALSE,
     before |-> <<>>]

Push(data) ==
    /\ q.status = "ok"
    /\ \E ub \in UB : q' = priority_queue_push(q, data, ub)
    /\ qcall' = [op |-> "push", data |-> data, root |-> NoItem,
                 yes |-> FALSE, before |-> Contents(q)]
    /\ ops' = ops + 1
    /\ UNCHANGED <<tree, treap, tcall, skiplist, scall>>

\* the caller pops a queue that priority_queue_empty says is not empty
Pop ==
    /\ q.status = "ok"
    /\ q.len > 0
    /\ q' = priority_queue_pop(q).q
    /\ qcall' = [op |-> "pop", data |-> NoItem,
                 root |-> priority_queue_pop(q).root, yes |-> FALSE,
                 before |-> Contents(q)]
    /\ ops' = ops + 1
    /\ UNCHANGED <<tree, treap, tcall, skiplist, scall>>

\* a query: it is recorded in qcall only
Contains(data) ==
    /\ q.status = "ok"
    /\ qcall' = [op |-> "contains", data |-> data, root |-> NoItem,
                 yes |-> priority_queue_contains(q, data),
                 before |-> Contents(q)]
    /\ UNCHANGED <<q, ops, tree, treap, tcall, skiplist, scall>>

\* priority_queue_sized_new(compare, equal, size): the caller starts over
\* with a queue of size slots
SizedNew(size) ==
    /\ q' = priority_queue_sized_new(size)
    /\ qcall' = [op |-> "sized_new", data |-> NoItem, root |-> NoItem,
                 yes |-> FALSE, before |-> <<>>]
    /\ UNCHANGED <<ops, tree, treap, tcall, skiplist, scall>>

(* ------------------------------------------------------------------ treap *)

\* Ruby's nil. A Treap::Node is a record; the nodes of a treap form a tree
\* (no node is referred to twice), so that the object graph is written as a
\* nested value and an assignment to an attribute as an update of it.
nil == [nil |-> TRUE]

\* Node.new(key, value, priority)
Node(k, v, p) ==
    [key |-> k, value |-> v, priority |-> p, right |-> nil, left |-> nil]

\* Treap.new: @tree, @default, @size = nil, default, 0
initialize == [tree |-> nil, size |-> 0]

\* tmp, @left, tmp.right = @left, @left.right, self; return tmp
rotate_right(self) ==
    [self.left EXCEPT !.right = [self EXCEPT !.left = self.left.right]]

\* tmp, @right, tmp.left = @right, @right.left, self; return tmp
rotate_left(self) ==
    [self.right EXCEPT !.left = [self EXCEPT !.right = self.right.left]]

\* Node#pop_root: after the rotation self is the child of tmp
RECURSIVE pop_root(_)
pop_root(self) ==
    IF self.left = nil THEN self.right
    ELSE IF self.right = nil THEN self.left
    ELSE IF self.left.priority >= self.right.priority
    THEN LET tmp == rotate_left(self)
         IN  [tmp EXCEPT !.left = pop_root(tmp.left)]
    ELSE LET tmp == rotate_right(self)
         IN  [tmp EXCEPT !.right = pop_root(tmp.right)]

\* Treap#insert(tree, node): the tree returned and @size after the call
RECURSIVE insert_uncounted(_, _, _)
\* Faulty variant: @size is left alone when the key is already stored
insert_uncounted(tree_, node, size) ==
    IF tree_ = nil THEN [tree |-> node, size |-> size]
    ELSE IF node.key < tree_.key
    THEN LET r == insert_uncounted(tree_.left, node, size)
             t1 == [tree_ EXCEPT !.left = r.tree]
         IN  [tree |-> IF t1.priority > t1.left.priority
                       THEN rotate_right(t1) ELSE t1,
              size |-> r.size]
    ELSE IF node.key > tree_.key
    THEN LET r == insert_uncounted(tree_.right, node, size)
             t1 == [tree_ EXCEPT !.right = r.tree]
         IN  [tree |-> IF t1.priority > t1.right.priority
                       THEN rotate_left(t1) ELSE t1,
              size |-> r.size]
    ELSE [tree |-> [tree_ EXCEPT !.value = node.value], size |-> size]

RECURSIVE insert(_, _, _)
insert(tree_, node, size) ==
    IF tree_ = nil THEN [tree |-> node, size |-> size]
    ELSE IF node.key < tree_.key
    THEN LET r == insert(tree_.left, node, size)
             t1 == [tree_ EXCEPT !.left = r.tree]
         IN  [tree |-> IF t1.priority > t1.left.priority
                       THEN rotate_right(t1) ELSE t1,
              size |-> r.size]
    ELSE IF node.key > tree_.key
    THEN LET r == insert(tree_.right, node, size)
             t1 == [tree_ EXCEPT !.right = r.tree]
         IN  [tree |-> IF t1.priority > t1.right.priority
                       THEN rotate_left(t1) ELSE t1,
              size |-> r.size]
    ELSE [tree |-> [tree_ EXCEPT !.value = node.value], size |-> size - 1]

\* Treap#store(key, value); priority is what rand returned
store(self, k, v, priority) ==
    LET r == insert(self.tree, Node(k, v, priority), self.size)
    IN  [tree |-> r.tree, size |-> r.size + 1]

\* Treap#remove(tree, key): [old, tree] and @size after the call
RECURSIVE remove(_, _, _)
remove(tree_, k, size) ==
    IF tree_ = nil THEN [old |-> nil, tree |-> nil, size |-> size]
    ELSE IF k < tree_.key
    THEN LET r == remove(tree_.left, k, size)
         IN  [old |-> r.old, tree |-> [tree_ EXCEPT !.left = r.tree],
              size |-> r.size]
    ELSE IF k > tree_.key
    THEN LET r == remove(tree_.right, k, size)
         IN  [old |-> r.old, tree |-> [tree_ EXCEPT !.right = r.tree],
              size |-> r.size]
    ELSE [old |-> tree_.value, tree |-> pop_root(tree_), size |-> size - 1]

\* Treap#delete(key)
delete(self, k) ==
    LET r == remove(self.tree, k, self.size)
    IN  [tree |-> r.tree, size |-> r.size]

\* Treap#clear
clear(self) == [tree |-> nil, size |-> 0]

\* Treap#fetch(key) without block and ifnone: the value is returned, or
\* IndexError is raised
Returns(v) == [raised |-> "", value |-> v]
IndexError == [raised |-> "IndexError", value |-> 0]

RECURSIVE FetchFrom(_, _)
FetchFrom(node, k) ==
    IF node = nil THEN IndexError
    ELSE IF k = node.key THEN Returns(node.value)
    ELSE FetchFrom(IF k < node.key THEN node.left ELSE node.right, k)

fetch(self, k) == FetchFrom(self.tree, k)

\* Treap#length
length(self) == self.size

\* history: kept maps every key stored and not deleted since to the value
\* stored for it last
NoTreapCall == [op |-> "none", key |-> 0, had |-> FALSE, kept |-> <<>>]

Kept(m, k, v) == [j \in DOMAIN m \cup {k} |-> IF j = k THEN v ELSE m[j]]
Forgot(m, k) == [j \in DOMAIN m \ {k} |-> m[j]]

TreapStore(k, v, priority) ==
    /\ treap' = store(treap, k, v, priority)
    /\ tcall' = [op |-> "store", key |-> k, had |-> k \in DOMAIN tcall.kept,
                 kept |-> Kept(tcall.kept, k, v)]
    /\ ops' = ops + 1
    /\ UNCHANGED <<tree, q, qcall, skiplist, scall>>

TreapDelete(k) ==
    /\ treap' = delete(treap, k)
    /\ tcall' = [op |-> "delete", key |-> k, had |-> k \in DOMAIN tcall.kept,
                 kept |-> Forgot(tcall.kept, k)]
    /\ ops' = ops + 1
    /\ UNCHANGED <<tree, q, qcall, skiplist, scall>>

TreapClear ==
    /\ treap' = clear(treap)
    /\ tcall' = [op |-> "clear", key |-> 0, had |-> FALSE, kept |-> <<>>]
    /\ ops' = ops + 1
    /\ UNCHANGED <<tree, q, qcall, skiplist, scall>>

(* --------------------------------------------------------------- skiplist *)

\* A Skiplist and its nodes. Nodes refer to each other (pred, backward,
\* forward), so they are kept as cells: cell 0 is @head, cell 1 is @tail,
\* Node.new takes the next cell. A reference is a cell, or nilref (Ruby's
\* nil); NoMethodError stands for the result of an expression that raised it.
nilref == -1
NoMethodError == -2
head == 0
tail == 1
MAX_HEIGHT == 32

Cells == 0..(MaxOpsS + 1)
\* the highest index of a forward array that the calls can reach
Top == MaxHeightS + 1

\* Array.new(n): every element nil; reading past the end gives nil and a
\* write past the end extends the array, so that the length plays no role
ArrayNew == [array |-> TRUE, at |-> [i \in 0..Top |-> nilref], node |-> nilref]

\* Skiplist#initialize: HeadNode.new, Node.new(nil, nil, -1) and the links
\* between the two; a nil key is 0
Skiplist_initialize ==
    [key |-> [n \in Cells |-> 0],
     value |-> [n \in Cells |-> 0],
     height |-> [n \in Cells |->
                    IF n = head THEN MAX_HEIGHT ELSE IF n = tail THEN -1 ELSE 0],
     pred |-> [n \in Cells |-> IF n = tail THEN head ELSE nilref],
     backward |-> [n \in Cells |-> IF n = tail THEN head ELSE nilref],
     forward |-> [n \in Cells |->
                     IF n = head
                     THEN [ArrayNew EXCEPT !.at[0] = tail]
                     ELSE ArrayNew],
     true_height |-> 0,
     size |-> 0,
     fresh |-> 1,
     status |-> "ok"]

Raise(s) == [s EXCEPT !.status = "raised"]

\* node.forward[i]: node is nil, or its forward is not an Array but a Node
\* (which has no method []): NoMethodError
Forward(s, node, i) ==
    IF node < 0 THEN NoMethodError
    ELSE IF ~s.forward[node].array THEN NoMethodError
    ELSE s.forward[node].at[i]

\* prev, node = node, node.forward[h] while key > node.key
RECURSIVE SearchAlong(_, _, _, _, _)
SearchAlong(s, k, prev, node, h) ==
    IF node < 0 \/ node = head THEN [prev |-> prev, node |-> NoMethodError]
    ELSE IF k > s.key[node]
    THEN SearchAlong(s, k, node, Forward(s, node, h), h)
    ELSE [prev |-> prev, node |-> node]

\* the while-loop of search_impl over the levels h, h - 1, ..., 0
RECURSIVE SearchLevels(_, _, _, _, _)
SearchLevels(s, k, prev, node, h) ==
    IF h < 0 THEN [s |-> s, node |-> node]
    ELSE LET a == SearchAlong(s, k, prev, Forward(s, prev, h), h)
         IN  IF a.node < 0 THEN [s |-> Raise(s), node |-> a.node]
             ELSE IF k = s.key[a.node] /\ a.node # tail
             THEN [s |-> s, node |-> a.node]
             ELSE SearchLevels(s, k, a.prev, a.node, h - 1)

\* Skiplist#search_impl(key): the list after the call (@tail.key is
\* written) and the node returned
search_impl(s, k) ==
    LET node == Forward(s, head, s.true_height)
    IN  IF node < 0 THEN [s |-> Raise(s), node |-> node]
        ELSE IF s.height[node] >= 0 /\ k = s.key[node]
        THEN [s |-> s, node |-> node]
        ELSE SearchLevels([s EXCEPT !.key[tail] = k], k, head, node,
                          s.true_height - 1)

\* node = node.backward while i > node.height
RECURSIVE Backward(_, _, _)
Backward(s, node, i) ==
    IF node < 0 THEN NoMethodError
    ELSE IF i > s.height[node] THEN Backward(s, s.backward[node], i)
    ELSE node

\* the body of '0.upto new_node.height do |i|' for i, then for i + 1, ...;
\* after the last one: new_node.backward = node; @size += 1
RECURSIVE StoreLevels(_, _, _, _)
StoreLevels(s, node, new_node, i) ==
    IF i > s.height[new_node]
    THEN [s EXCEPT !.backward[new_node] = node, !.size = s.size + 1]
    ELSE LET back == Backward(s, node, i)
             tmp == Forward(s, back, i)
         IN  IF back < 0 \/ tmp = NoMethodError THEN Raise(s)
             ELSE IF tmp = nilref
             THEN IF s.height[back] = MAX_HEIGHT THEN Raise(s)
                  ELSE Raise([s EXCEPT !.forward[back].at[i] = new_node])
             ELSE LET s1 == IF s.height[back] = MAX_HEIGHT /\ s.height[tmp] < 0
                            THEN [s EXCEPT !.true_height = i + 1,
                                           !.forward[back].at[i + 1] = tmp]
                            ELSE s
                      s2 == [s1 EXCEPT !.forward[new_node].at[i] = tmp,
                                       !.forward[back].at[i] = new_node]
                      s3 == IF s2.height[tmp] = i
                            THEN [s2 EXCEPT !.backward[tmp] = new_node]
                            ELSE s2
                  IN  StoreLevels(s3, back, new_node, i + 1)

\* the branch of store that inserts a new node; node is what search_impl
\* returned and h what random_height returned
StoreNew(s, k, v, h, node) ==
    LET new_node == s.fresh + 1
        before == s.pred[node]
        after == Forward(s, before, 0)
    IN  IF before < 0 \/ after < 0 THEN Raise(s)
        ELSE StoreLevels(
                 [s EXCEPT !.fresh = new_node,
                           !.key[new_node] = k,
                           !.value[new_node] = v,
                           !.height[new_node] = h,
                           !.forward[new_node] = ArrayNew,
                           !.backward[new_node] = nilref,
                           !.pred[new_node] = before,
                           !.pred[after] = new_node],
                 before, new_node, 0)

\* Skiplist#store(key, value)
Skiplist_store(s, k, v, h) ==
    LET f == search_impl(s, k)
    IN  IF f.s.status # "ok" THEN f.s
        ELSE IF k # f.s.key[f.node] \/ f.node = tail
        THEN StoreNew(f.s, k, v, h, f.node)
        ELSE [f.s EXCEPT !.value[f.node] = v]

\* node = node.forward[i] while node.forward[i] != rm_node
RECURSIVE NodeBefore(_, _, _, _)
NodeBefore(s, node, rm_node, i) ==
    IF Forward(s, node, i) = NoMethodError THEN NoMethodError
    ELSE IF Forward(s, node, i) # rm_node
    THEN NodeBefore(s, Forward(s, node, i), rm_node, i)
    ELSE node

\* the body of 'rm_node.height.downto 0 do |i|' for i, then for i - 1, ...;
\* after the last one: tmp.pred = node; @size -= 1
RECURSIVE DeleteLevels(_, _, _, _, _)
DeleteLevels(s, node, rm_node, i, tmp) ==
    IF i < 0
    THEN IF tmp < 0 THEN Raise(s)
         ELSE [s EXCEPT !.pred[tmp] = node, !.size = s.size - 1]
    ELSE LET at == NodeBefore(s, node, rm_node, i)
             next == Forward(s, rm_node, i)
         IN  IF at < 0 \/ next = NoMethodError THEN Raise(s)
             ELSE LET s1 == [s EXCEPT !.forward[at] =
                                [array |-> FALSE, at |-> ArrayNew.at,
                                 node |-> next]]
                  IN  IF next < 0 THEN Raise(s1)
                      ELSE DeleteLevels(
                               IF s1.height[next] = i
                               THEN [s1 EXCEPT !.backward[next] = at]
                               ELSE s1,
                               at, rm_node, i - 1, next)

\* Skiplist#delete(key)
Skiplist_delete(s, k) ==
    LET f == search_impl(s, k)
    IN  IF f.s.status # "ok" THEN f.s
        ELSE IF f.node = tail THEN f.s
        ELSE DeleteLevels(f.s, f.s.backward[f.node], f.node,
                          f.s.height[f.node], nilref)

\* Skiplist#clear
Skiplist_clear(s) ==
    IF ~s.forward[head].array THEN Raise(s)
    ELSE [s EXCEPT !.true_height = 0,
                   !.forward[head].at[0] = tail,
                   !.pred[tail] = head,
                   !.backward[tail] = head]

\* Skiplist#each in ascending order with a block that records the pairs;
\* seen holds the nodes passed: meeting one again, the loop never ends
RECURSIVE EachFrom(_, _, _, _)
EachFrom(s, node, pairs, seen) ==
    IF node < 0 THEN [pairs |-> pairs, status |-> "raised"]
    ELSE IF node = tail THEN [pairs |-> pairs, status |-> "ok"]
    ELSE IF node \in seen THEN [pairs |-> pairs, status |-> "hang"]
    ELSE EachFrom(s, Forward(s, node, 0),
                  Append(pairs, <<s.key[node], s.value[node]>>),
                  seen \cup {node})

Skiplist_each(s) == EachFrom(s, Forward(s, head, 0), <<>>, {})

\* Skiplist#fetch(key) without block and ifnone
Skiplist_fetch(s, k) ==
    LET f == search_impl(s, k)
    IN  IF f.s.status # "ok" THEN [raised |-> "NoMethodError", value |-> 0]
        ELSE IF f.node # tail THEN Returns(s.value[f.node])
        ELSE IndexError

\* Skiplist#length
Skiplist_length(s) == s.size

NoSkiplistCall ==
    [op |-> "none", key |-> 0, size |-> 0, pairs |-> <<>>]

\* A call is made on a list whose last call returned. The history keeps the
\* size and the pairs of an ascending each before the call.
SkiplistCall(op, k, s) ==
    /\ skiplist.status = "ok"
    /\ skiplist' = s
    /\ scall' = [op |-> op, key |-> k, size |-> skiplist.size,
                 pairs |-> Skiplist_each(skiplist).pairs]
    /\ ops' = ops + 1
    /\ UNCHANGED <<tree, q, qcall, treap, tcall>>

SkiplistStore(k, v, h) ==
    SkiplistCall("store", k, Skiplist_store(skiplist, k, v, h))

SkiplistDelete(k) == SkiplistCall("delete", k, Skiplist_delete(skiplist, k))

SkiplistClear == SkiplistCall("clear", 0, Skiplist_clear(skiplist))

(* --------------------------------------------------------- specifications *)

\* the nodes reachable from the root over left and right links
RECURSIVE Reach(_, _, _)
Reach(t, frontier, acc) ==
    IF frontier = {} THEN acc
    ELSE LET kids == {t.left[n] : n \in frontier} \cup
                     {t.right[n] : n \in frontier}
             new == (kids \ acc) \ {rb_null, null}
         IN  Reach(t, new, acc \cup new)

TreeNodes == Reach(Cur, {root} \ {rb_null}, {root} \ {rb_null})

\* rb_tree_new_full(key_compare, null, key_release, value_release) with both
\* release functions given; no node exists yet, the sentinel is as declared.
Init ==
    /\ left = [n \in Nodes |-> rb_null]
    /\ right = [n \in Nodes |-> rb_null]
    /\ parent = [n \in Nodes |-> rb_null]
    /\ color = [n \in Nodes |-> BLACK]
    /\ key = [n \in Nodes |-> NullPtr]
    /\ value = [n \in Nodes |-> NullPtr]
    /\ root = rb_null
    /\ key_release = TRUE
    /\ value_release = TRUE
    /\ node_free_list = null
    /\ fresh = 0
    /\ released = <<>>
    /\ status = "ok"
    /\ stored = [o \in {} |-> NoPair]
    /\ call = NoCall
    /\ ops = 0
    /\ q = priority_queue_new
    /\ qcall = NoQueueCall
    /\ treap = initialize
    /\ tcall = NoTreapCall
    /\ skiplist = Skiplist_initialize
    /\ scall = NoSkiplistCall

\* Structure: MaxKey keys, one key object per order, one value object.
Keys == {KeyPtr(o, 1) : o \in 1..MaxKey}
Values == {ValPtr(1)}
ValuesP == {ValPtr(v) : v \in 1..MaxVal}

Next ==
    /\ ops < MaxOps
    /\ \/ \E k \in Keys, v \in Values : rb_tree_insert(k, v)
       \/ \E k \in Keys, v \in Values : rb_tree_replace(k, v)
       \/ \E k \in Keys : rb_tree_remove(k)
       \/ \E k \in Keys : rb_tree_steal(k)

Spec == Init /\ [][Next]_vars

\* Depth: insert and remove only, on more keys and for longer runs.
KeysD == {KeyPtr(o, 1) : o \in 1..MaxKeyD}

NextDeep ==
    /\ ops < MaxOpsD
    /\ \/ \E k \in KeysD, v \in Values : rb_tree_insert(k, v)
       \/ \E k \in KeysD : rb_tree_remove(k)

SpecDeep == Init /\ [][NextDeep]_vars

\* Height: insert and remove only.
KeysH == {KeyPtr(o, 1) : o \in 1..MaxKeyH}

NextHeight ==
    /\ ops < MaxOpsH
    /\ \/ \E k \in KeysH, v \in Values : rb_tree_insert(k, v)
       \/ \E k \in KeysH : rb_tree_remove(k)

SpecHeight == Init /\ [][NextHeight]_vars

\* Round trip: insert and remove only, with MaxVal value objects.
KeysR == {KeyPtr(o, 1) : o \in 1..MaxKeyP}

NextRoundTrip ==
    /\ ops < MaxOpsP
    /\ \/ \E k \in KeysR, v \in ValuesP : rb_tree_insert(k, v)
       \/ \E k \in KeysR : rb_tree_remove(k)

SpecRoundTrip == Init /\ [][NextRoundTrip]_vars

\* Payload: fewer keys, but MaxId equal key objects per order and MaxVal
\* value objects, so that what is stored and what is released can be told
\* apart.
KeysP == {KeyPtr(o, i) : o \in 1..MaxKeyP, i \in 1..MaxId}

NextPayload ==
    /\ ops < MaxOpsP
    /\ \/ \E k \in KeysP, v \in ValuesP : rb_tree_insert(k, v)
       \/ \E k \in KeysP, v \in ValuesP : rb_tree_replace(k, v)
       \/ \E k \in KeysP : rb_tree_remove(k)
       \/ \E k \in KeysP : rb_tree_steal(k)

SpecPayload == Init /\ [][NextPayload]_vars

\* Release: keys are inserted that the tree does not hold yet, and the tree
\* is released at some point.
KeysF == {KeyPtr(o, 1) : o \in 1..MaxKeyF}

NextRelease ==
    \/ \E k \in KeysF, v \in Values :
           /\ ops < MaxKeyF
           /\ ~Has(stored, k)
           /\ rb_tree_insert(k, v)
    \/ rb_tree_release

SpecRelease == Init /\ [][NextRelease]_vars

\* the key object of order o and the value object that the next call brings:
\* objects no earlier call has seen
FreshKey(o) == KeyPtr(o, ops + 1)
FreshValue == ValPtr(ops + 1)

\* Fresh: insert, replace and remove, every call with objects of its own, so
\* that the incoming and the stored key of one order are different objects.
NextFresh ==
    /\ ops < MaxOpsI
    /\ \/ \E o \in 1..MaxKeyP : rb_tree_insert(FreshKey(o), FreshValue)
       \/ \E o \in 1..MaxKeyP : rb_tree_replace(FreshKey(o), FreshValue)
       \/ \E o \in 1..MaxKeyP : rb_tree_remove(FreshKey(o))

SpecFresh == Init /\ [][NextFresh]_vars

\* Life: trees are used, released and created again over the same node
\* cells and free-list; an allocation can fail.
NextLife ==
    /\ ops < MaxOpsL
    /\ \/ \E o \in 1..MaxKeyP : rb_tree_insert(FreshKey(o), FreshValue)
       \/ \E o \in 1..MaxKeyP : rb_tree_replace(FreshKey(o), FreshValue)
       \/ \E o \in 1..MaxKeyP : rb_tree_insert_nomem(FreshKey(o), FreshValue)
       \/ \E o \in 1..MaxKeyP : rb_tree_remove(FreshKey(o))
       \/ \E o \in 1..MaxKeyP : rb_tree_steal(FreshKey(o))
       \/ rb_tree_release
       \/ rb_tree_new_full

SpecLife == Init /\ [][NextLife]_vars

\* Query: insert and remove, and between them the five queries.
KeysQ == {KeyPtr(o, 1) : o \in 1..MaxKeyQ}

NextQuery ==
    \/ \E k \in KeysQ, v \in Values : ops < MaxOpsQ /\ rb_tree_insert(k, v)
    \/ \E k \in KeysQ : ops < MaxOpsQ /\ rb_tree_remove(k)
    \/ \E k \in KeysQ : Lookup(k)
    \/ \E k \in KeysQ : LookupExtended(k)
    \/ Size
    \/ Height
    \/ \E stop \in 0..MaxKeyQ : Map(stop)

SpecQuery == Init /\ [][NextQuery]_vars

\* Worn: two producers fill the tree, each with keys of its own in ascending
\* order (the MaxHigh largest keys come from the second), in any interleaving;
\* once the MaxKeyF keys are in, the tree is used on: a key that a lookup
\* finds is removed, and one more key is inserted when a lookup does not
\* find it. MaxOpsW calls in all.
KeysW == {KeyPtr(o, 1) : o \in 1..(MaxKeyF + 1)}
KeysLow == {k \in KeysF : k.ord <= MaxKeyF - MaxHigh}
KeysHigh == KeysF \ KeysLow

\* the key a producer brings next: the smallest of its keys not yet brought
NextOf(ks) == {k \in ks : /\ ~Has(stored, k)
                          /\ \A j \in ks : j.ord < k.ord => Has(stored, j)}

NextWorn ==
    /\ ops < MaxOpsW
    /\ \/ \E k \in NextOf(KeysLow), v \in Values :
              /\ ops < MaxKeyF
              /\ rb_tree_insert(k, v)
       \/ \E k \in NextOf(KeysHigh), v \in Values :
              /\ ops < MaxKeyF
              /\ rb_tree_insert(k, v)
       \/ \E k \in KeysW \ KeysF, v \in Values :
              /\ ops >= MaxKeyF
              /\ ~Found(Cur, k)
              /\ rb_tree_insert(k, v)
       \/ \E k \in KeysW :
              /\ ops >= MaxKeyF
              /\ Found(Cur, k)
              /\ rb_tree_remove(k)

SpecWorn == Init /\ [][NextWorn]_vars

\* Queue: pushes, pops and membership queries on a queue made by
\* priority_queue_new. MaxAddr objects exist, each with one of MaxPri
\* priorities; an address holds one object at a time.
Items == {Item(p, a) : p \in 1..MaxPri, a \in 1..MaxAddr}

\* no item in the queue is another object at data's address
Live(data) ==
    \A i \in 1..q.len :
        q.heap[i] # Unwritten =>
            (q.heap[i].addr = data.addr => q.heap[i] = data)

NextQueue ==
    \/ \E data \in Items : ops < MaxOpsPQ /\ Live(data) /\ Push(data)
    \/ ops < MaxOpsPQ /\ Pop
    \/ \E data \in Items : Live(data) /\ Contains(data)

SpecQueue == Init /\ [][NextQueue]_vars

\* Treap: store, delete and clear with keys 1..MaxKeyT; every store brings a
\* value of its own and a priority out of MaxPrio (what rand returns).
NextTreap ==
    /\ ops < MaxOpsT
    /\ \/ \E k \in 1..MaxKeyT, p \in 0..(MaxPrio - 1) :
              TreapStore(k, ops + 1, p)
       \/ \E k \in 1..MaxKeyT : TreapDelete(k)
       \/ TreapClear

SpecTreap == Init /\ [][NextTreap]_vars

\* Skiplist: store, delete and clear with keys 1..MaxKeyS; every store
\* brings a value of its own and a height of 0..MaxHeightS (what
\* random_height returns).
NextSkiplist ==
    /\ ops < MaxOpsS
    /\ \/ \E k \in 1..MaxKeyS, h \in 0..MaxHeightS :
              SkiplistStore(k, ops + 1, h)
       \/ \E k \in 1..MaxKeyS : SkiplistDelete(k)
       \/ SkiplistClear

SpecSkiplist == Init /\ [][NextSkiplist]_vars

\* Rotate: a tree is built by inserts of new keys, then nodes that have the
\* child the rotation asks for are rotated.
KeysX == {KeyPtr(o, 1) : o \in 1..MaxKeyX}

NextRotate ==
    /\ ops < MaxOpsX
    /\ \/ \E k \in KeysX, v \in Values :
              /\ call.op \in {"none", "insert"}
              /\ ~Has(stored, k)
              /\ rb_tree_insert(k, v)
       \/ \E x \in TreeNodes :
              right[x] # rb_null /\ RotateLeft(x)
       \/ \E y \in TreeNodes :
              left[y] # rb_null /\ RotateRight(y)

SpecRotate == Init /\ [][NextRotate]_vars

\* Sized: a queue is made by priority_queue_sized_new with a size of
\* 1..MaxSize, then pushes and pops follow.
NextSized ==
    \/ \E size \in 1..MaxSize : qcall.op = "none" /\ SizedNew(size)
    \/ \E data \in Items :
           /\ qcall.op # "none"
           /\ ops < MaxOpsZ
           /\ Live(data)
           /\ Push(data)
    \/ qcall.op # "none" /\ ops < MaxOpsZ /\ Pop

SpecSized == Init /\ [][NextSized]_vars

(* ------------------------------------------------------------- properties *)

\* the public call returned (the process did not die in it)
Returned == status = "ok"

\* the numbers of BLACK nodes on the paths from node down to the sentinel;
\* a path of more than depth nodes (a cycle) or into the null pointer
\* counts as -1
RECURSIVE BlackCounts(_, _)
BlackCounts(node, depth) ==
    IF node = rb_null THEN {0}
    ELSE IF node = null \/ depth = 0 THEN {-1}
    ELSE {c + (IF color[node] = BLACK THEN 1 ELSE 0) :
             c \in BlackCounts(left[node], depth - 1) \cup
                   BlackCounts(right[node], depth - 1)}

\* C1: after any sequence of insert, replace, remove and steal from the
\* empty tree, no RED node of the tree has a RED child.
C1_NoRedRed ==
    Returned =>
        \A n \in TreeNodes :
            color[n] = RED =>
                \A c \in {left[n], right[n]} \ {null} : color[c] = BLACK

\* C2: after any such sequence, all paths from a node of the tree down to
\* the sentinel cross the same number of BLACK nodes.
C2_EqualBlackHeight ==
    Returned =>
        \A n \in TreeNodes : Cardinality(BlackCounts(n, MaxNodes + 1)) = 1

\* C3: after every insert, replace, remove or steal that returns, the root
\* of a non-empty tree is BLACK.
C3_RootBlack == (Returned /\ root # rb_null) => color[root] = BLACK

C3_Witness ==
    /\ Returned
    /\ call.op \in {"remove", "steal"}
    /\ call.found
    /\ root # rb_null
    /\ color[root] = BLACK
    /\ \E n \in TreeNodes : color[n] = RED

\* C4: the sentinel is BLACK in every reachable state.
C4_SentinelBlack == color[rb_null] = BLACK

\* the keys map() hands to a visitor that never stops, in visiting order
MapKeys(m) == [i \in 1..Len(m.visited) |-> m.visited[i][1]]

StrictlyAscending(ks) ==
    \A i \in 1..(Len(ks) - 1) : key_compare(ks[i], ks[i + 1]) < 0

\* C5: after any sequence of calls map() visits every stored key exactly
\* once, in strictly ascending comparator order.
C5_MapAscendingAllKeys ==
    Returned =>
        LET m == rb_tree_map(Cur, 0)
        IN  /\ m.status = "ok"
            /\ StrictlyAscending(MapKeys(m))
            /\ {MapKeys(m)[i] : i \in 1..Len(m.visited)} =
                   {stored[o].key : o \in DOMAIN stored}

\* C6: for any interleaving of insert and remove, lookup(k) returns the
\* value most recently stored for k if k was not removed since, and null
\* otherwise.
C6_LookupRoundTrip ==
    Returned =>
        \A o \in 1..MaxKeyP :
            rb_tree_lookup(Cur, KeyPtr(o, 1)) =
                IF o \in DOMAIN stored THEN stored[o].value ELSE NullPtr

\* C7: size() is the number of distinct keys inserted and not removed since.
C7_SizeCountsStoredKeys ==
    Returned => rb_tree_size(Cur) = Cardinality(DOMAIN stored)

\* C8: remove(k) and steal(k) on a tree that holds no key equal to k return
\* normally and change neither the tree (links, colors, keys, values, root,
\* sentinel) nor the free-list, and invoke no release callback.
AbsentRemoval ==
    /\ call'.op \in {"remove", "steal"}
    /\ ops' = ops + 1
    /\ \A n \in TreeNodes : key_compare(call'.key, key[n]) # 0

Pow2(n) == 2 ^ n

\* the tree rb_tree_new_full returns, as a record
Empty ==
    [left |-> [n \in Nodes |-> rb_null], right |-> [n \in Nodes |-> rb_null],
     parent |-> [n \in Nodes |-> rb_null], color |-> [n \in Nodes |-> BLACK],
     key |-> [n \in Nodes |-> NullPtr], value |-> [n \in Nodes |-> NullPtr],
     root |-> rb_null, free |-> null, fresh |-> 0, key_release |-> TRUE,
     value_release |-> TRUE, log |-> <<>>, status |-> "ok"]

\* the tree after insert of the keys 1, 2, ..., n into the empty tree
RECURSIVE Ascending(_)
Ascending(n) ==
    IF n = 0 THEN Empty
    ELSE rb_tree_find(Ascending(n - 1), KeyPtr(n, 1), ValPtr(1),
                      TRUE, FALSE).t

HeightWithinBound(size, height) ==
    size > 0 => (height # Crash /\ Pow2(height) <= (size + 1) * (size + 1))

C10_RemoveReleasesRemovedPair ==
    (Returned /\ call.op = "remove" /\ call.old # NoPair) =>
        released = << <<"key_release", call.old.key>>,
                      <<"value_release", call.old.value>> >>

\* C11: steal(k) invokes neither key_release nor value_release, whether k is
\* present or absent and whatever the shape of the tree.
C11_StealNeverReleases == call.op = "steal" => released = <<>>

C11_Witness ==
    /\ Returned
    /\ call.op = "steal"
    /\ call.found
    /\ rb_tree_size(Cur) >= 2
    /\ node_free_list # null

\* a step that is a call of op with a key the tree holds an equal key to
CallOnPresent(op) ==
    /\ ops' = ops + 1
    /\ call'.op = op
    /\ Found(Cur, call'.key)

\* the node of the tree whose key is equal to k
NodeOf(t, k) == Descend(t, k, t.root, rb_null, {}).iter

KeyReleases(log) == SelectSeq(log, LAMBDA e : e[1] = "key_release")
ValueReleases(log) == SelectSeq(log, LAMBDA e : e[1] = "value_release")

ShapeUnchanged ==
    /\ UNCHANGED <<left, right, parent, color, root, node_free_list, fresh>>
    /\ rb_tree_size(Cur') = rb_tree_size(Cur)

\* C12: replace(k, v) on a tree that holds a key equal to k returns, leaves
\* size(), links, colors and root as they were, calls value_release exactly
\* once, with the value the tree held under that key, and lookup(k) then
\* returns v.
C12_ReplaceExistingValue ==
    [][CallOnPresent("replace") =>
          /\ status' = "ok"
          /\ ShapeUnchanged
          /\ ValueReleases(released') =
                 << <<"value_release", rb_tree_lookup(Cur, call'.key)>> >>
          /\ rb_tree_lookup(Cur', call'.key) = call'.value]_vars

C12_Witness ==
    /\ Returned
    /\ call.op = "replace"
    /\ call.found
    /\ rb_tree_size(Cur) = 3
    /\ \E e \in {released[i] : i \in 1..Len(released)} :
           e[1] = "value_release" /\ e[2] # call.value
    /\ rb_tree_lookup(Cur, call.key) = call.value

\* C13: replace(k2, v2) on a tree that holds an equal key k calls key_release
\* exactly once, with k, and value_release exactly once, with the value held
\* under k, never key_release with k2, and the node then holds k2 and v2.
C13_ReplaceAdoptsKey ==
    [][CallOnPresent("replace") =>
          /\ KeyReleases(released') =
                 << <<"key_release", key[NodeOf(Cur, call'.key)]>> >>
          /\ ValueReleases(released') =
                 << <<"value_release", value[NodeOf(Cur, call'.key)]>> >>
          /\ rb_tree_lookup_extended(Cur', call'.key, Slot, Slot) =
                 [found |-> TRUE,
                  orig_key |-> [given |-> TRUE, holds |-> call'.key],
                  value |-> [given |-> TRUE, holds |-> call'.value],
                  status |-> "ok"]]_vars

C13_Witness ==
    /\ Returned
    /\ call.op = "replace"
    /\ call.found
    /\ rb_tree_lookup_extended(Cur, call.key, Slot, Slot).orig_key.holds =
           call.key
    /\ Len(released) = 2
    /\ released[1][1] = "key_release"
    /\ released[1][2].ord = call.key.ord
    /\ released[1][2].id # call.key.id

\* C14: insert(k2, v2) on a tree that holds an equal key k calls key_release
\* exactly once, with the incoming k2, and value_release exactly once, with
\* the value held under k; the node keeps k and takes v2; size(), links,
\* colors and root stay as they were.
C14_InsertKeepsKey ==
    [][CallOnPresent("insert") =>
          /\ status' = "ok"
          /\ KeyReleases(released') = << <<"key_release", call'.key>> >>
          /\ ValueReleases(released') =
                 << <<"value_release", value[NodeOf(Cur, call'.key)]>> >>
          /\ key'[NodeOf(Cur, call'.key)] = key[NodeOf(Cur, call'.key)]
          /\ value'[NodeOf(Cur, call'.key)] = call'.value
          /\ ShapeUnchanged]_vars

C14_Witness ==
    /\ Returned
    /\ call.op = "insert"
    /\ call.found
    /\ rb_tree_size(Cur) = 3
    /\ key[NodeOf(Cur, call.key)].id # call.key.id
    /\ released[1] = <<"key_release", call.key>>
    /\ released[2][2] # call.value

Count(seq, x) == Cardinality({i \in 1..Len(seq) : seq[i] = x})
Range(seq) == {seq[i] : i \in 1..Len(seq)}

\* a step that is a call of rb_tree_release
ReleaseStep == ops' = ops + 1 /\ call'.op = "release"

\* the callbacks release() owes for the pairs map() visits
Owed(pairs) ==
    [i \in 1..(2 * Len(pairs)) |->
        IF i <= Len(pairs) THEN <<"key_release", pairs[i][1]>>
        ELSE <<"value_release", pairs[i - Len(pairs)][2]>>]

\* C15: release() of a tree with both callbacks calls key_release once with
\* the key and value_release once with the value of every pair in the tree,
\* and makes no other callback.
C15_ReleaseReleasesEveryPair ==
    [][ReleaseStep =>
          \A e \in Range(Owed(rb_tree_map(Cur, 0).visited)) \cup
                   Range(released') :
              Count(released', e) =
                  Count(Owed(rb_tree_map(Cur, 0).visited), e)]_vars

Before(seq, a, b) ==
    \E i, j \in 1..Len(seq) : i < j /\ seq[i] = a /\ seq[j] = b

\* C16: release() puts every node of the tree on the free-list exactly once,
\* both children of a node before the node itself, and reads no child link
\* of a node that is on the free-list already.
C16_ReleasePostOrderOnce ==
    [][ReleaseStep =>
          /\ status' = "released"
          /\ ~ReleaseWalk(Cur).stale
          /\ Range(ReleaseWalk(Cur).pushed) = TreeNodes
          /\ \A n \in TreeNodes :
                 /\ Count(ReleaseWalk(Cur).pushed, n) = 1
                 /\ \A c \in {left[n], right[n]} \ {rb_null} :
                        Before(ReleaseWalk(Cur).pushed, c, n)]_vars

\* the nodes below node in left-to-right order (left subtree, node, right
\* subtree), read off the links; depth bounds the walk
RECURSIVE InOrder(_, _)
InOrder(node, depth) ==
    IF node = rb_null \/ node = null \/ depth = 0 THEN <<>>
    ELSE InOrder(left[node], depth - 1) \o <<node>> \o
         InOrder(right[node], depth - 1)

\* C17: when the visitor of map() returns false on its stop-th call, it is
\* not called again, the walk ends, and the pairs visited are those of the
\* first stop nodes of the tree in left-to-right order.
C17_MapStopsAtPrefix ==
    Returned =>
        \A stop \in 1..Len(InOrder(root, MaxNodes)) :
            /\ rb_tree_map(Cur, stop).status = "ok"
            /\ ~rb_tree_map(Cur, stop).go
            /\ rb_tree_map(Cur, stop).visited =
                   [i \in 1..stop |->
                       <<key[InOrder(root, MaxNodes)[i]],
                         value[InOrder(root, MaxNodes)[i]]>>]

C17_Witness ==
    /\ Returned
    /\ rb_tree_size(Cur) >= 4
    /\ Len(rb_tree_map(Cur, 2).visited) = 2
    /\ ~rb_tree_map(Cur, 2).go
    /\ \A i \in 1..2 : rb_tree_map(Cur, 2).visited[i][1] # key[root]

\* what lookup_extended owes for key k and the output slots o and v
LookupExtendedOwed(k, o, v) ==
    IF \E n \in TreeNodes : key_compare(k, key[n]) = 0
    THEN [found |-> TRUE,
          orig_key |-> IF o.given THEN [o EXCEPT !.holds = key[NodeOf(Cur, k)]]
                       ELSE o,
          value |-> IF v.given THEN [v EXCEPT !.holds = value[NodeOf(Cur, k)]]
                    ELSE v,
          status |-> "ok"]
    ELSE [found |-> FALSE, orig_key |-> o, value |-> v, status |-> "ok"]

\* C18: lookup_extended(k, orig_key, value) returns true exactly when the
\* tree holds a key equal to k; then the stored key is written to orig_key
\* and the stored value to value, each whenever that slot is given, and a
\* slot that is not given is not written through; when it returns false no
\* slot is written.
C18_LookupExtended ==
    Returned =>
        \A k \in KeysP, o \in {NullSlot, Slot}, v \in {NullSlot, Slot} :
            rb_tree_lookup_extended(Cur, k, o, v) = LookupExtendedOwed(k, o, v)

\* a step in which an insert of an absent key gets no memory for the node
AllocationFails == ops' = ops + 1 /\ call'.op = "insert, no memory"

\* C19: an allocation failure during insert of an absent key leaves root,
\* links, colors, keys and values as they were before the call, and the call
\* returns to its caller (the failure is an outcome the caller can handle).
C19_AllocationFailureRecoverable ==
    [][AllocationFails => UNCHANGED heap /\ status' = "ok"]_vars

\* the insert of k and v would create a node
Allocates(k) ==
    /\ Descend(Cur, k, root, rb_null, {}).status = "ok"
    /\ ~Found(Cur, k)
    /\ CanAllocate(Cur)

\* node NewNode(t) of the heap t1 that rb_tree_node_new returns
Initialized(t1, node, k, v, p) ==
    /\ t1.left[node] = rb_null
    /\ t1.right[node] = rb_null
    /\ t1.parent[node] = p
    /\ t1.color[node] = RED
    /\ t1.key[node] = k
    /\ t1.value[node] = v

\* C20: the node rb_tree_node_new returns for a new pair, fresh or taken from
\* the free-list after a remove, steal or release, has left and right the
\* sentinel, parent the last node of the descent, color RED and the key and
\* value of the pair; after the insert lookup_extended yields that key and
\* value for it.
C20_NodeInitialized ==
    Returned =>
        \A o \in 1..MaxKeyP :
            Allocates(FreshKey(o)) =>
                /\ Initialized(
                       rb_tree_node_new(
                           Cur, FreshKey(o), FreshValue,
                           Descend(Cur, FreshKey(o), root, rb_null,
                                   {}).iters_parent,
                           RED),
                       NewNode(Cur), FreshKey(o), FreshValue,
                       Descend(Cur, FreshKey(o), root, rb_null,
                               {}).iters_parent)
                /\ rb_tree_lookup_extended(
                       rb_tree_find(Cur, FreshKey(o), FreshValue, TRUE,
                                    FALSE).t,
                       FreshKey(o), Slot, Slot) =
                       [found |-> TRUE,
                        orig_key |-> [given |-> TRUE, holds |-> FreshKey(o)],
                        value |-> [given |-> TRUE, holds |-> FreshValue],
                        status |-> "ok"]

\* the last call created a node for its key in a cell that was in use
\* before: a cell new_struct has just delivered is numbered fresh
C20_Witness ==
    /\ Returned
    /\ call.op \in {"insert", "replace"}
    /\ ~call.found
    /\ \E n \in TreeNodes : key[n] = call.key /\ n < fresh
    /\ node_free_list # null

\* C28: rb_tree_lookup, rb_tree_lookup_extended, rb_tree_size, rb_tree_height
\* and rb_tree_map only read: the call leaves the root, every node's links,
\* color, key and value, the sentinel, and the free-list as they were, and it
\* calls no release function.
QueryStep == call'.op \in QueryOps /\ call' # call

C28_QueriesReadOnly ==
    [][QueryStep => (heap' = heap /\ released' = <<>> /\ status' = "ok")]_vars

\* a key the tree does not hold has been looked up in a tree that holds others
C28_Witness ==
    /\ call.op \in {"lookup", "lookup_extended"}
    /\ ~call.found
    /\ root # rb_null
    /\ node_free_list # null

\* C29: rb_tree_steal(k) does the structural work of rb_tree_remove(k): from
\* the same tree both leave the same shape, colors, keys and values and give
\* the same node back to the free-list; they differ in the callbacks only,
\* which remove makes for a key it finds and steal never makes. Every remove
\* is compared with the steal of the same key from the same tree, and every
\* steal with the remove.
Structure(t) ==
    <<t.left, t.right, t.parent, t.color, t.key, t.value, t.root, t.free,
      t.fresh, t.status>>

RemovalStep == ops' = ops + 1 /\ call'.op \in {"remove", "steal"}

C29_StealLikeRemove ==
    [][RemovalStep =>
        LET other == RemoveOrSteal(Cur, call'.key, call'.op = "steal")
        IN  /\ <<left', right', parent', color', key', value', root',
                 node_free_list', fresh', status'>> = Structure(other)
            /\ call'.op = "steal" => released' = <<>>
            /\ (call'.op = "remove" /\ call'.found /\ status' = "ok")
                   => Len(released') = 2 /\ other.log = <<>>]_vars

\* a key has been stolen from a tree that keeps two nodes or more, and its node
\* heads the free-list
C29_Witness ==
    /\ call.op = "steal"
    /\ call.found
    /\ status = "ok"
    /\ Cardinality(TreeNodes) >= 2
    /\ node_free_list \in Nodes \ {rb_null}
    /\ node_free_list \notin TreeNodes

\* C30: when rb_tree_remove or rb_tree_steal targets a node that has two
\* non-sentinel children, the node taken out of the tree is the target's
\* in-order successor, and the successor's key and value are both copied
\* onto the target before the successor is taken out.
TwoChildren(t, z) ==
    z # rb_null /\ t.left[z] # rb_null /\ t.right[z] # rb_null

C30_SuccessorCopiedOntoTarget ==
    [][(RemovalStep /\ status' = "ok"
            /\ TwoChildren(Cur, NodeOf(Cur, call'.key))) =>
        LET z == NodeOf(Cur, call'.key)
            y == rb_tree_node_successor(Cur, z).iter
        IN  /\ node_free_list' = y
            /\ key'[z] = key[y]
            /\ value'[z] = value[y]]_vars

\* C26: every rb_tree_insert and rb_tree_replace call on a tree reached from
\* the empty tree by public calls terminates: the descent is finite and the
\* loop that restores the colors after the insertion halts.
C26_InsertTerminates == call.op \in {"insert", "replace"} => status # "hang"

\* C27: every rb_tree_remove and rb_tree_steal call on a tree reached from
\* the empty tree by public calls terminates: the search for the successor
\* ends and the loop that restores the colors after the removal stops.
C27_RemoveTerminates == call.op \in {"remove", "steal"} => status # "hang"

\* C21: the free-list shared by all trees of the process stays a finite
\* chain of distinct nodes that ends in the null pointer; every pop and
\* every push of its head is one step under the lock, so that no node is
\* handed to two allocations and no released node is lost.
\* The chain is followed from the head through the left links; seen holds
\* the nodes passed.
RECURSIVE FreeChain(_, _, _)
FreeChain(t, node, seen) ==
    IF node = null THEN TRUE
    ELSE IF node = rb_null \/ node \in seen THEN FALSE
    ELSE FreeChain(t, t.left[node], seen \cup {node})

C21_FreeListIsChain == FreeChain(Cur, node_free_list, {})

\* C22: priority_queue_pop on a queue that is not empty returns an item that
\* compare ranks less than or equal to every item that was in the queue, and
\* what is left in the queue is what was in it minus that one item.
Minimal(item, items) ==
    \A i \in 1..Len(items) : compare(item, items[i]) <= 0

MinusOne(after, before, item) ==
    /\ Len(after) = Len(before) - 1
    /\ \A x \in Range(before) :
           Count(after, x) = Count(before, x) - (IF x = item THEN 1 ELSE 0)

C22_PopReturnsMinimum ==
    (qcall.op = "pop" /\ q.status = "ok") =>
        /\ Minimal(qcall.root, qcall.before)
        /\ MinusOne(Contents(q), qcall.before, qcall.root)

\* C23: priority_queue_contains(q, data) is true exactly when some item in
\* the queue is equal to data under the queue's equal function, whatever
\* position of the heap the item is in.
C23_ContainsIffPresent ==
    qcall.op = "contains" =>
        (qcall.yes <=> \E i \in 1..Len(qcall.before) :
                           equal(qcall.before[i], qcall.data))

\* C24: after any sequence of store (of a new or of a stored key), delete
\* (of a present or of an absent key) and clear, Treap#size and Treap#length
\* are the number of distinct keys stored, and fetch(k) returns the value
\* stored last for every stored key k.
C24_TreapSizeAndFetch ==
    /\ treap.size = Cardinality(DOMAIN tcall.kept)
    /\ length(treap) = treap.size
    /\ \A k \in DOMAIN tcall.kept : fetch(treap, k) = Returns(tcall.kept[k])

\* a key that was stored has been stored again with another value, in a
\* treap that holds a second key
C24_Witness ==
    /\ tcall.op = "store"
    /\ tcall.had
    /\ Cardinality(DOMAIN tcall.kept) >= 2
    /\ treap.tree.left # nil

\* C25: after any sequence of store, delete and clear, Skiplist#size and
\* Skiplist#length are the number of pairs that an ascending each yields;
\* clear leaves length 0; delete of a present key makes it one less, and the
\* key is then neither fetched nor traversed; store of a key that is present
\* leaves it as it was.
KeysOf(pairs) == {pairs[i][1] : i \in 1..Len(pairs)}

C25_SkiplistLength ==
    scall.op # "none" =>
        /\ skiplist.status = "ok"
        /\ Skiplist_each(skiplist).status = "ok"
        /\ skiplist.size = Len(Skiplist_each(skiplist).pairs)
        /\ Skiplist_length(skiplist) = skiplist.size
        /\ scall.op = "clear" => Skiplist_length(skiplist) = 0
        /\ (scall.op = "delete" /\ scall.key \in KeysOf(scall.pairs)) =>
               /\ Skiplist_length(skiplist) = scall.size - 1
               /\ scall.key \notin KeysOf(Skiplist_each(skiplist).pairs)
               /\ Skiplist_fetch(skiplist, scall.key) = IndexError
        /\ (scall.op = "store" /\ scall.key \in KeysOf(scall.pairs)) =>
               Skiplist_length(skiplist) = scall.size

\* the node of the tree that holds key k
NodeWith(k) == CHOOSE n \in TreeNodes : key[n] = k

\* the links of x and y, the child links of the parent p and the root in t
LinksOf(t, x, y, p) ==
    <<t.left[x], t.right[x], t.parent[x], t.left[y], t.right[y], t.parent[y],
      IF p = rb_null THEN <<>> ELSE <<t.left[p], t.right[p]>>, t.root>>

\* rotate_left(X) gives the right-hand picture of the diagram: Y where X
\* was, X its left child with children A and B, C its right child
LeftPicture(x, y) ==
    /\ status' = "ok"
    /\ left'[y] = x /\ right'[y] = right[y]
    /\ left'[x] = left[x] /\ right'[x] = left[y]
    /\ parent'[x] = y /\ parent'[y] = parent[x]
    /\ IF parent[x] = rb_null THEN root' = y
       ELSE /\ root' = root
            /\ left[parent[x]] = x => left'[parent[x]] = y
            /\ right[parent[x]] = x => right'[parent[x]] = y

\* C32: rotate_left(X) yields Y on top with left child X (children A, B) and
\* right child C; rotate_right(Y) applied to that result restores the links
\* of X and Y, their parent's child links and the root; each rotation keeps
\* the in-order sequence of the nodes.
C32_RotateRightInvertsLeft ==
    [][/\ (call'.op = "rotate_left" /\ ops' = ops + 1) =>
              /\ LeftPicture(NodeWith(call'.key), right[NodeWith(call'.key)])
              /\ rb_tree_rotate_right(Cur', right[NodeWith(call'.key)]).status
                     = "ok"
              /\ LinksOf(rb_tree_rotate_right(Cur',
                                              right[NodeWith(call'.key)]),
                         NodeWith(call'.key), right[NodeWith(call'.key)],
                         parent[NodeWith(call'.key)])
                     = LinksOf(Cur, NodeWith(call'.key),
                               right[NodeWith(call'.key)],
                               parent[NodeWith(call'.key)])
       /\ (call'.op \in {"rotate_left", "rotate_right"} /\ ops' = ops + 1)
              => InOrder(root, MaxNodes)' = InOrder(root, MaxNodes)]_vars

\* C33: after every insert, replace, remove or steal that returns, the links
\* form a tree: the root's parent is the sentinel, every child c of a node n
\* other than the sentinel has c.parent = n, no node is reached from the root
\* on two paths, and the sentinel's left and right links are the sentinel.
C33_LinksFormTree ==
    (Returned /\ call.op \in {"insert", "replace", "remove", "steal"}) =>
        /\ parent[root] = rb_null
        /\ \A n \in TreeNodes :
               \A c \in {left[n], right[n]} \ {rb_null} : parent[c] = n
        /\ Len(InOrder(root, MaxNodes + 1)) = Cardinality(TreeNodes)
        /\ left[rb_null] = rb_null
        /\ right[rb_null] = rb_null

\* C34: the assertions of the rotations hold at every call that insert,
\* replace, remove or steal make on a tree built from the empty one:
\* rotate_left(x) gets a node x with a right child, rotate_right(y) a node y
\* with a left child, none of them the sentinel. A failed assertion ends the
\* call with status "abort".
C34_RotationAssertionsHold ==
    call.op \in {"insert", "replace", "remove", "steal"} => status # "abort"

\* C35: on a queue made with a size s, every push writes to a heap index of
\* the array allocated at that moment (index <= q->size when written), the
\* array having been grown before the write when it was full, and len is the
\* number of pushes less the number of pops.
C35_PushWritesInsideArray ==
    [][/\ (qcall'.op = "push" /\ ops' = ops + 1) =>
              /\ q'.status = "ok"
              /\ q.len + 1 <= q'.size
              /\ q.len = q.size => q'.size > q.size
              /\ q'.len = q.len + 1
       /\ (qcall'.op = "pop" /\ ops' = ops + 1) => q'.len = q.len - 1
       /\ qcall'.op = "sized_new" => q'.len = 0]_vars

\* the nodes on the free-list, followed from its head through the left links
RECURSIVE FreeNodes(_, _, _)
FreeNodes(t, node, seen) ==
    IF node = null \/ node = rb_null \/ node \in seen THEN seen
    ELSE FreeNodes(t, t.left[node], seen \cup {node})

FreeSet == FreeNodes(Cur, node_free_list, {})

\* the nodes of the tree, none once the tree is released
LiveNodes == IF status = "released" THEN {} ELSE TreeNodes

\* every allocated node is in the tree, on one path from the root, or on the
\* free-list, once, and not both
Lifecycle ==
    /\ FreeChain(Cur, node_free_list, {})
    /\ LiveNodes \cap FreeSet = {}
    /\ LiveNodes \cup FreeSet = 1..fresh
    /\ status = "ok" => Len(InOrder(root, MaxNodes + 1)) = Cardinality(TreeNodes)

\* C31: in a single thread a node is taken from the allocator only by an
\* insert (or replace) of an absent key, and put on the free-list only by a
\* remove or steal that found its key or by the release of its tree; after
\* every call each allocated node is reachable from the root of its tree on
\* one path or is on the free-list once, never both, never twice.
C31_NodeLifecycle ==
    [][(/\ ops' = ops + 1
        /\ call'.op \in {"insert", "replace", "remove", "steal", "release",
                         "new"}
        /\ status' \in {"ok", "released"}) =>
           /\ (FreeSet \ FreeSet' # {} \/ fresh' > fresh) =>
                  (call'.op \in {"insert", "replace"} /\ ~call'.found)
           /\ (FreeSet' \ FreeSet # {}) =>
                  \/ call'.op \in {"remove", "steal"} /\ call'.found
                  \/ call'.op = "release"
           /\ Lifecycle']_vars
====
